---------------------------- MODULE Spec2Model ----------------------------
(***************************************************************************)
(* rum-rs: single-shot interactive terminal prompts.                       *)
(*                                                                         *)
(* The module models main() of src/src/main.rs (the driving loop around    *)
(* the monolithic Component enum) and the per-variant ComponentTrait       *)
(* implementations of text.rs, confirm.rs, spinner.rs, typer.rs and        *)
(* choose.rs.                                                              *)
(*                                                                         *)
(* Strings are sequences of one-character strings.  Instants are kept as   *)
(* the time elapsed since the instant was taken, saturated one unit above  *)
(* the longest duration the code compares it with.                         *)
(***************************************************************************)
EXTENDS Integers, Sequences, FiniteSets, TLC

VARIABLES
    pc,           \* position of main(): the statement about to run, or how it ended
    opts,         \* Opts::from_args() plus what the environment supplies (stdin lines)
    component,    \* main.rs: `component`, the monolithic Component
    events,       \* unread key events held by the terminal event source
    event,        \* main.rs: `event`, the event read in this iteration
    interrupted,  \* main.rs: `interrupted`
    terminal,     \* alternate screen / hidden cursor / raw mode of the terminal
    child,        \* the spawned child process behind the Child handle
    typed,        \* graphemes the Typer printed straight to the screen
    to_print,     \* main.rs: `to_print`
    err_code,     \* main.rs: `err_code`
    stdout,       \* what has been written to standard output
    exit_code,    \* the exit status of the process
    result_called,\* whether main() has called component.result()
    insert_log,   \* indices pushed into `chosen` and still in it, oldest push first
    evicted,      \* whether the last chosen.push() returned an evicted entry
    screen,       \* the frame the last draw() left on the terminal
    drew,         \* whether the statement main() ran last called draw()
    tcomponent,   \* the ComponentTrait implementor built by component.rs
    tdone,        \* what the last ComponentTrait tick/handle_event returned
    tresult       \* what ComponentTrait::result returned, once it was called

vars == << pc, opts, component, events, event, interrupted, terminal, child,
           typed, to_print, err_code, stdout, exit_code, result_called, insert_log,
           evicted, screen, drew, tcomponent, tdone, tresult >>

----------------------------------------------------------------------------
(* Bounds of the model *)

MaxChoices == 3      \* lines read from stdin for Choose
MaxSelections == 2   \* --selections
MaxInput == 2        \* characters typed into Text
MaxWidth == 2        \* --width
MaxText == 3         \* code points of the Typer text
MaxSpeed == 1        \* --speed, in time units
MaxWait == 1         \* --wait, in time units
MaxPending == 1      \* unread events the event source holds

----------------------------------------------------------------------------
(* Generic helpers *)

Max(a, b) == IF a > b THEN a ELSE b

Range(s) == { s[i] : i \in DOMAIN s }

RECURSIVE Remove(_, _)
Remove(s, x) ==
    IF s = << >> THEN << >>
    ELSE IF Head(s) = x THEN Remove(Tail(s), x)
    ELSE << Head(s) >> \o Remove(Tail(s), x)

Reverse(s) == [ i \in 1..Len(s) |-> s[Len(s) + 1 - i] ]

NoEvent == [ code |-> "None", ch |-> "", modifiers |-> "NONE" ]

Key(code, ch, modifiers) == [ code |-> code, ch |-> ch, modifiers |-> modifiers ]

\* The key events the terminal can deliver (crossterm Event::Key).
Events ==
    { Key("Up", "", "NONE"), Key("Down", "", "NONE"),
      Key("Left", "", "NONE"), Key("Right", "", "NONE"),
      Key("Enter", "", "NONE"), Key("Enter", "", "SHIFT"),
      Key("Char", " ", "NONE"), Key("Char", "c", "NONE"),
      Key("Char", "c", "CONTROL"), Key("Char", "^", "NONE"),
      Key("Backspace", "", "NONE") }


\* the interrupt test with the wrong modifier
IsInterruptShift(ev) ==
    ev.code = "Char" /\ ev.ch = "c" /\ ev.modifiers = "SHIFT"

IsInterrupt(ev) ==
    ev.code = "Char" /\ ev.ch = "c" /\ ev.modifiers = "CONTROL"

----------------------------------------------------------------------------
(* lru::LruCache<usize, ()> as the code uses it: the list of keys, most     *)
(* recently used first, which is the order iter() visits them in.           *)

LruNew == << >>

LruLen(l) == Len(l)

\* contains(): membership, the recency order is left alone
LruContains(l, k) == k \in Range(l)

\* get(): a hit moves the key to the most-recently-used end
LruGet(l, k) == IF k \in Range(l) THEN << k >> \o Remove(l, k) ELSE l

\* pop(): removes the key
LruPop(l, k) == Remove(l, k)

\* push() that evicts the most recently used key
LruPushEvictNewest(l, cap, k) ==
    IF k \in Range(l) THEN << k >> \o Remove(l, k)
    ELSE IF Len(l) = cap THEN << k >> \o Tail(l)
    ELSE << k >> \o l

\* push(): a present key is refreshed; otherwise, at capacity, the least
\* recently used key is evicted, and the key becomes the most recently used
LruPush(l, cap, k) ==
    IF k \in Range(l) THEN << k >> \o Remove(l, k)
    ELSE IF Len(l) = cap THEN << k >> \o SubSeq(l, 1, Len(l) - 1)
    ELSE << k >> \o l

\* the cache after a membership test made with get(), which refreshes the key
LruAfterGet(l, k) == LruGet(l, k)

\* the cache after contains(): it takes &self and leaves the order alone
LruAfterContains(l, k) == l

\* iter(): most recently used first
LruIter(l) == l

----------------------------------------------------------------------------
(* Strings *)

RECURSIVE Join(_, _)
\* [String]::join(sep)
Join(strs, sep) ==
    IF strs = << >> THEN << >>
    ELSE IF Len(strs) = 1 THEN strs[1]
    ELSE strs[1] \o sep \o Join(Tail(strs), sep)

\* A code point that extends the grapheme before it (a combining mark).
IsExtend(ch) == ch = "^"

RECURSIVE Graphemes(_)
\* str::graphemes(true): a code point and the combining marks that follow it
\* form one grapheme; each grapheme is a string of its own.
Graphemes(s) ==
    IF s = << >> THEN << >>
    ELSE LET rest == Graphemes(Tail(s))
         IN  IF rest # << >> /\ IsExtend(rest[1][1])
                THEN << << Head(s) >> \o rest[1] >> \o Tail(rest)
             ELSE << << Head(s) >> >> \o rest

RECURSIVE Offsets(_, _)
\* the offset each of the strings gs starts at when they are laid end to end
\* from offset `at`
Offsets(gs, at) ==
    IF gs = << >> THEN << >>
    ELSE << at >> \o Offsets(Tail(gs), at + Len(Head(gs)))

\* str::grapheme_indices(true), the offsets alone: where each grapheme starts
GraphemeIndices(s) == Offsets(Graphemes(s), 0)

\* Iterator::nth(n), n counted from 0
Nth(it, n) ==
    IF n < Len(it) THEN [ some |-> TRUE, v |-> it[n + 1] ]
    ELSE [ some |-> FALSE, v |-> 0 ]

----------------------------------------------------------------------------
(* The child process and its handle (std::process::Child) *)

\* std::process::ExitStatus: an exit code (an i32; it is within 0..255 on
\* Unix and any 32-bit value on Windows), or none when a signal ended it
ExitStatuses ==
    { [ has_code |-> TRUE, code |-> 0 ],
      [ has_code |-> TRUE, code |-> 3 ],
      [ has_code |-> TRUE, code |-> 256 ],
      [ has_code |-> FALSE, code |-> 0 ] }

NoChild ==
    [ status |-> "none", exit |-> [ has_code |-> FALSE, code |-> 0 ],
      observed |-> FALSE, killed |-> FALSE ]

\* Command::spawn(): a running process
SpawnedChild == [ NoChild EXCEPT !.status = "running" ]

\* Child::try_wait(): Some(status) once the process has exited, which also
\* reaps it; None while it runs
TryWait(ch) ==
    IF ch.status = "exited"
        THEN [ some |-> TRUE, child |-> [ ch EXCEPT !.observed = TRUE ] ]
        ELSE [ some |-> FALSE, child |-> ch ]

\* Child::kill(): the termination request
Kill(ch) == [ ch EXCEPT !.killed = TRUE ]

\* ExitStatus::code().unwrap_or(1) as u8
StatusCode(exit) == (IF exit.has_code THEN exit.code ELSE 1) % 256

\* ExitStatus::success()
Success(exit) == exit.has_code /\ exit.code = 0

----------------------------------------------------------------------------
(* Spinner frame sequences *)

SpinnerChars(style) ==
    CASE style = "Pulse" -> << "full", "dark", "medium", "light" >>
      [] style = "Line" -> << "|", "/", "-", "\\" >>
      [] style = "Monkey" -> << "see-no-evil", "hear-no-evil", "speak-no-evil" >>
      [] style = "Points" -> << "...", "o..", ".o.", "..o" >>

\* the --spinner-style values the model draws from
SpinnerStyles == { "Line", "Monkey" }

----------------------------------------------------------------------------
(* Command lines and environments the model draws from *)

Letters == << << "a" >>, << "b" >>, << "c" >>, << "d" >>, << "e" >> >>

\* the lines on stdin: none, or the first n of a, b, c, ...
ChoiceLists == { SubSeq(Letters, 1, n) : n \in 0..MaxChoices }

SampleText == << "h", "i", "^", "!", "?" >>

TyperTexts == { SubSeq(SampleText, 1, n) : n \in 0..MaxText }

Placeholders == { << "h", "i", "^", "!" >> }

OptsSet ==
    [ subcommand : { "Text" }, width : 0..MaxWidth, placeholder : Placeholders ]
    \cup [ subcommand : { "Confirm" } ]
    \cup [ subcommand : { "Spinner" }, speed : 0..MaxSpeed,
           spinner_style : SpinnerStyles, spawn_ok : BOOLEAN ]
    \cup [ subcommand : { "Typer" }, speed : 0..MaxSpeed, wait : 0..MaxWait,
           text : TyperTexts ]
    \cup [ subcommand : { "Choose" }, selections : 1..MaxSelections,
           inexact : BOOLEAN, stdin : ChoiceLists ]

----------------------------------------------------------------------------
(* main.rs: the monolithic Component *)

\* from_opts without the test for an empty list of choices
FromOptsPanicsSpawnOnly(o) == o.subcommand = "Spinner" /\ ~o.spawn_ok

\* Component::from_opts panics: no line on stdin, or spawn() failed
FromOptsPanics(o) ==
    \/ o.subcommand = "Choose" /\ o.stdin = << >>
    \/ o.subcommand = "Spinner" /\ ~o.spawn_ok

\* Component::from_opts
Component_from_opts(o) ==
    CASE o.subcommand = "Text" ->
            [ kind |-> "Text", width |-> o.width, placeholder |-> o.placeholder,
              input |-> << >> ]
      [] o.subcommand = "Confirm" ->
            [ kind |-> "Confirm", confirmed |-> FALSE ]
      [] o.subcommand = "Spinner" ->
            [ kind |-> "Spinner", speed |-> o.speed,
              chars |-> SpinnerChars(o.spinner_style),
              elapsed |-> 0, progress |-> 0 ]
      [] o.subcommand = "Typer" ->
            [ kind |-> "Typer", speed |-> o.speed, wait |-> o.wait,
              iter |-> Graphemes(o.text), elapsed |-> 0,
              done_printing |-> FALSE ]
      [] o.subcommand = "Choose" ->
            [ kind |-> "Choose", inexact |-> o.inexact, choices |-> o.stdin,
              chosen |-> LruNew, cursor_loc |-> 0,
              selections |-> o.selections ]

\* The longest duration an Instant of the component is compared with.
Horizon(c) ==
    CASE c.kind = "Spinner" -> c.speed
      [] c.kind = "Typer" -> Max(c.speed, c.wait)
      [] OTHER -> 0

HasTimer(c) == c.kind \in { "Spinner", "Typer" }

\* Vec::get(k) over the 0-based index k
Get(v, k) == IF k + 1 \in DOMAIN v THEN << v[k + 1] >> ELSE << >>

RECURSIVE FilterMapGet(_, _)
\* keys.filter_map(|k| choices.get(k)).collect()
FilterMapGet(keys, choices) ==
    IF keys = << >> THEN << >>
    ELSE Get(choices, Head(keys)) \o FilterMapGet(Tail(keys), choices)

\* the payload with the options in the order they were selected
ChoosePayloadOldestFirst(c) ==
    Join(FilterMapGet(Reverse(LruIter(c.chosen)), c.choices), << "\n" >>)

\* the Choose arm of result: the chosen options, joined by "\n"
ChoosePayload(c) == Join(FilterMapGet(LruIter(c.chosen), c.choices), << "\n" >>)

\* Component::result.  io names the I/O operation that fails, if any.
Component_result(c, ch, io) ==
    CASE c.kind = "Text" ->
            [ r |-> "ok", payload |-> c.input, status |-> 0, child |-> ch ]
      [] c.kind = "Confirm" ->
            [ r |-> "ok", payload |-> << >>,
              status |-> IF c.confirmed THEN 0 ELSE 1, child |-> ch ]
      [] c.kind = "Spinner" ->
            IF io = "try_wait"
                THEN [ r |-> "err", payload |-> << >>, status |-> 0, child |-> ch ]
            ELSE IF TryWait(ch).some
                THEN [ r |-> "ok", payload |-> << >>,
                       status |-> StatusCode(ch.exit), child |-> TryWait(ch).child ]
            ELSE [ r |-> "ok", payload |-> << >>, status |-> 1, child |-> Kill(ch) ]
      [] c.kind = "Typer" ->
            [ r |-> "ok", payload |-> << >>, status |-> 0, child |-> ch ]
      [] c.kind = "Choose" ->
            [ r |-> "ok", payload |-> ChoosePayload(c), status |-> 0, child |-> ch ]


\* what `0usize - 1` wraps to in a build without overflow checks: usize::MAX,
\* an index beyond the end of every string
UsizeMax == 2147483647

\* The Text arm of draw: the style and the text it prints after the prefix.
\* An empty input shows the placeholder up to the start of grapheme number
\* `width`; otherwise the input from the start of the grapheme `width - 1`
\* places from the last one.  `width - 1` is computed in usize.
TextWindow(width, placeholder, input) ==
    IF input = << >>
        THEN LET n == Nth(GraphemeIndices(placeholder), width)
                 end == IF n.some THEN n.v ELSE Len(placeholder)
             IN  [ kind |-> "Text", is_bg |-> TRUE,
                   to_print |-> SubSeq(placeholder, 1, end) ]
        ELSE LET n == Nth(Reverse(GraphemeIndices(input)),
                          IF width = 0 THEN UsizeMax ELSE width - 1)
                 start == IF n.some THEN n.v ELSE 0
             IN  [ kind |-> "Text", is_bg |-> FALSE,
                   to_print |-> SubSeq(input, start + 1, Len(input)) ]

\* the terminal before anything was drawn, and after a draw that failed midway
NoFrame == [ kind |-> "None" ]
TornFrame == [ kind |-> "Torn" ]

\* what a draw that succeeds leaves on the screen
Component_frame(c) ==
    CASE c.kind = "Text" -> TextWindow(c.width, c.placeholder, c.input)
      [] c.kind = "Confirm" -> [ kind |-> "Confirm", yes |-> c.confirmed ]
      [] c.kind = "Spinner" -> [ kind |-> "Spinner", c |-> c.chars[c.progress + 1] ]
      [] c.kind = "Typer" -> [ kind |-> "Typer" ]
      [] c.kind = "Choose" ->
            [ kind |-> "Choose", cursor |-> c.cursor_loc,
              selected |-> { i \in 0..(Len(c.choices) - 1) : LruContains(c.chosen, i) } ]

RECURSIVE ChosenAfterDraw(_, _, _)
\* the selection cache after the Choose arm of draw went over the options
\* from index i on, asking chosen.contains(&choice_i) for each
ChosenAfterDraw(chosen, i, n) ==
    IF i >= n THEN chosen
    ELSE ChosenAfterDraw(LruAfterContains(chosen, i), i + 1, n)

\* the component after draw(&mut self) returned Ok
Component_afterDraw(c) ==
    IF c.kind = "Choose"
        THEN [ c EXCEPT !.chosen = ChosenAfterDraw(c.chosen, 0, Len(c.choices)) ]
        ELSE c

\* Component::draw.  Every arm first clears the screen, so any draw can fail.
\* Text with a non-empty input evaluates `*width - 1`: with width 0 the
\* subtraction overflows, which panics in a build with overflow checks and
\* wraps in one without.  Spinner indexes chars with progress.
Component_draw(c, io) ==
    IF io = "draw" THEN "err"
    ELSE IF c.kind = "Text" /\ c.input # << >> /\ c.width = 0 /\ io = "overflow"
        THEN "panic"
    ELSE IF c.kind = "Spinner" /\ c.progress >= Len(c.chars) THEN "panic"
    ELSE "ok"

\* the screen after draw was called on c
Drawn(c, io) == IF Component_draw(c, io) = "ok" THEN Component_frame(c) ELSE TornFrame

\* what tick/update return after `if should_redraw { self.draw(screen)?; }`
AfterRedraw(c, should_redraw, io) ==
    IF should_redraw /\ Component_draw(c, io) = "err" THEN "err"
    ELSE IF should_redraw /\ Component_draw(c, io) = "panic" THEN "panic"
    ELSE "false"

\* the Spinner tick with the frame test ahead of the exit test
SpinnerTickFrameFirst(c, ch, ty, io) ==
    IF c.elapsed > c.speed
        THEN LET d == [ c EXCEPT !.progress = (c.progress + 1) % Len(c.chars),
                                 !.elapsed = 0 ]
             IN  [ c |-> d, r |-> AfterRedraw(d, TRUE, io), child |-> ch,
                   typed |-> ty, drew |-> TRUE ]
    ELSE IF io = "try_wait"
        THEN [ c |-> c, r |-> "err", child |-> ch, typed |-> ty, drew |-> FALSE ]
    ELSE IF TryWait(ch).some
        THEN [ c |-> c, r |-> "true", child |-> TryWait(ch).child, typed |-> ty,
               drew |-> FALSE ]
    ELSE [ c |-> c, r |-> "false", child |-> ch, typed |-> ty, drew |-> FALSE ]

\* the Spinner tick that counts frames without wrapping around
SpinnerTickNoWrap(c, ch, ty, io) ==
    IF io = "try_wait"
        THEN [ c |-> c, r |-> "err", child |-> ch, typed |-> ty, drew |-> FALSE ]
    ELSE IF TryWait(ch).some
        THEN [ c |-> c, r |-> "true", child |-> TryWait(ch).child, typed |-> ty,
               drew |-> FALSE ]
    ELSE IF c.elapsed > c.speed
        THEN LET d == [ c EXCEPT !.progress = c.progress + 1, !.elapsed = 0 ]
             IN  [ c |-> d, r |-> AfterRedraw(d, TRUE, io), child |-> ch,
                   typed |-> ty, drew |-> TRUE ]
    ELSE [ c |-> c, r |-> "false", child |-> ch, typed |-> ty, drew |-> FALSE ]

\* The Spinner arm of Component::tick
SpinnerTick(c, ch, ty, io) ==
    IF io = "try_wait"
        THEN [ c |-> c, r |-> "err", child |-> ch, typed |-> ty, drew |-> FALSE ]
    ELSE IF TryWait(ch).some
        THEN [ c |-> c, r |-> "true", child |-> TryWait(ch).child, typed |-> ty,
               drew |-> FALSE ]
    ELSE IF c.elapsed > c.speed
        THEN LET d == [ c EXCEPT !.progress = (c.progress + 1) % Len(c.chars),
                                 !.elapsed = 0 ]
             IN  [ c |-> d, r |-> AfterRedraw(d, TRUE, io), child |-> ch,
                   typed |-> ty, drew |-> TRUE ]
    ELSE [ c |-> c, r |-> "false", child |-> ch, typed |-> ty, drew |-> FALSE ]

\* the Typer tick that completes as soon as printing is done
TyperTickNoWait(c, ch, ty, io) ==
    IF c.done_printing
        THEN [ c |-> c, r |-> "true", child |-> ch, typed |-> ty, drew |-> FALSE ]
    ELSE IF c.elapsed > c.speed
        THEN IF c.iter # << >>
                THEN [ c |-> [ c EXCEPT !.iter = Tail(c.iter), !.elapsed = 0 ],
                       r |-> IF io = "print" THEN "err" ELSE "false", child |-> ch,
                       typed |-> IF io = "print" THEN ty ELSE Append(ty, Head(c.iter)),
                       drew |-> FALSE ]
                ELSE [ c |-> [ c EXCEPT !.done_printing = TRUE ], r |-> "false",
                       child |-> ch, typed |-> ty, drew |-> FALSE ]
    ELSE [ c |-> c, r |-> "false", child |-> ch, typed |-> ty, drew |-> FALSE ]

\* The Typer arm of Component::tick
TyperTick(c, ch, ty, io) ==
    IF c.done_printing
        THEN [ c |-> c, r |-> IF c.elapsed > c.wait THEN "true" ELSE "false",
               child |-> ch, typed |-> ty, drew |-> FALSE ]
    ELSE IF c.elapsed > c.speed
        THEN IF c.iter # << >>
                THEN IF io = "print"
                        THEN [ c |-> [ c EXCEPT !.iter = Tail(c.iter) ], r |-> "err",
                               child |-> ch, typed |-> ty, drew |-> FALSE ]
                        ELSE [ c |-> [ c EXCEPT !.iter = Tail(c.iter), !.elapsed = 0 ],
                               r |-> "false", child |-> ch,
                               typed |-> Append(ty, Head(c.iter)), drew |-> FALSE ]
                ELSE [ c |-> [ c EXCEPT !.done_printing = TRUE ], r |-> "false",
                       child |-> ch, typed |-> ty, drew |-> FALSE ]
    ELSE [ c |-> c, r |-> "false", child |-> ch, typed |-> ty, drew |-> FALSE ]

\* the tick that gives up on a prompt waiting for keys
Component_tickGivesUp(c, ch, ty, io) ==
    CASE c.kind = "Spinner" -> SpinnerTick(c, ch, ty, io)
      [] c.kind = "Typer" -> TyperTick(c, ch, ty, io)
      [] OTHER -> [ c |-> c, r |-> "true", child |-> ch, typed |-> ty,
                    drew |-> FALSE ]

\* Component::tick
Component_tick(c, ch, ty, io) ==
    CASE c.kind = "Spinner" -> SpinnerTick(c, ch, ty, io)
      [] c.kind = "Typer" -> TyperTick(c, ch, ty, io)
      [] OTHER -> [ c |-> c, r |-> "false", child |-> ch, typed |-> ty,
                    drew |-> FALSE ]

\* the Text update in which Enter completes whatever its modifiers
TextUpdateAnyEnter(c, ev, io) ==
    CASE ev.code = "Char" ->
            LET d == [ c EXCEPT !.input = Append(c.input, ev.ch) ]
            IN  [ c |-> d, r |-> AfterRedraw(d, TRUE, io), drew |-> TRUE ]
      [] ev.code = "Backspace" ->
            LET d == [ c EXCEPT !.input =
                         IF c.input = << >> THEN << >>
                         ELSE SubSeq(c.input, 1, Len(c.input) - 1) ]
            IN  [ c |-> d, r |-> AfterRedraw(d, TRUE, io), drew |-> TRUE ]
      [] ev.code = "Enter" -> [ c |-> c, r |-> "true", drew |-> FALSE ]
      [] OTHER -> [ c |-> c, r |-> "false", drew |-> FALSE ]

\* The Text arm of Component::update
TextUpdate(c, ev, io) ==
    CASE ev.code = "Char" ->
            LET d == [ c EXCEPT !.input = Append(c.input, ev.ch) ]
            IN  [ c |-> d, r |-> AfterRedraw(d, TRUE, io), drew |-> TRUE ]
      [] ev.code = "Backspace" ->
            LET d == [ c EXCEPT !.input =
                         IF c.input = << >> THEN << >>
                         ELSE SubSeq(c.input, 1, Len(c.input) - 1) ]
            IN  [ c |-> d, r |-> AfterRedraw(d, TRUE, io), drew |-> TRUE ]
      [] ev.code = "Enter" /\ ev.modifiers = "NONE" ->
            [ c |-> c, r |-> "true", drew |-> FALSE ]
      [] OTHER -> [ c |-> c, r |-> "false", drew |-> FALSE ]

\* The Confirm arm of Component::update
ConfirmUpdate(c, ev, io) ==
    CASE ev.code = "Right" ->
            LET d == [ c EXCEPT !.confirmed = TRUE ]
            IN  [ c |-> d, r |-> AfterRedraw(d, TRUE, io), drew |-> TRUE ]
      [] ev.code = "Left" ->
            LET d == [ c EXCEPT !.confirmed = FALSE ]
            IN  [ c |-> d, r |-> AfterRedraw(d, TRUE, io), drew |-> TRUE ]
      [] ev.code = "Enter" /\ ev.modifiers = "NONE" ->
            [ c |-> c, r |-> "true", drew |-> FALSE ]
      [] OTHER -> [ c |-> c, r |-> "false", drew |-> FALSE ]

\* the toggle over a cache that never evicts
ChooseToggleUnbounded(c) ==
    IF LruContains(c.chosen, c.cursor_loc)
        THEN [ c EXCEPT !.chosen = LruPop(c.chosen, c.cursor_loc) ]
        ELSE [ c EXCEPT !.chosen = << c.cursor_loc >> \o c.chosen ]

\* the toggle that selects the index after the cursor's
ChooseToggleNextIndex(c) ==
    LET curstate == LruContains(c.chosen, c.cursor_loc)
        got == LruGet(c.chosen, c.cursor_loc)
    IN  IF curstate
            THEN [ c EXCEPT !.chosen = LruPop(got, c.cursor_loc) ]
            ELSE [ c EXCEPT !.chosen = LruPush(got, c.selections, c.cursor_loc + 1) ]

\* The Space arm of the Choose update: toggle the cursor's index
ChooseToggle(c) ==
    LET curstate == LruContains(c.chosen, c.cursor_loc)
        got == LruGet(c.chosen, c.cursor_loc)
    IN  IF curstate
            THEN [ c EXCEPT !.chosen = LruPop(got, c.cursor_loc) ]
            ELSE [ c EXCEPT !.chosen = LruPush(got, c.selections, c.cursor_loc) ]

\* completion as soon as anything is selected
ChooseMayCompleteNonEmpty(c) == c.inexact \/ LruLen(c.chosen) >= 1

\* completion once every option is selected
ChooseMayCompleteAllChosen(c) == c.inexact \/ LruLen(c.chosen) = Len(c.choices)

\* The Enter arm of the Choose update: may the prompt complete
ChooseMayComplete(c) == c.inexact \/ LruLen(c.chosen) = c.selections

\* the Choose update whose Down wraps from the last option to the first
ChooseUpdateWrap(c, ev, io) ==
    CASE ev.code = "Down" ->
            LET d == [ c EXCEPT !.cursor_loc = (c.cursor_loc + 1) % Len(c.choices) ]
            IN  [ c |-> d, r |-> AfterRedraw(d, TRUE, io), drew |-> TRUE ]
      [] ev.code = "Up" ->
            IF c.cursor_loc # 0
                THEN LET d == [ c EXCEPT !.cursor_loc = c.cursor_loc - 1 ]
                     IN  [ c |-> d, r |-> AfterRedraw(d, TRUE, io), drew |-> TRUE ]
                ELSE [ c |-> c, r |-> "false", drew |-> FALSE ]
      [] ev.code = "Char" /\ ev.ch = " " ->
            LET d == ChooseToggle(c)
            IN  [ c |-> d, r |-> AfterRedraw(d, TRUE, io), drew |-> TRUE ]
      [] ev.code = "Enter" ->
            [ c |-> c, r |-> IF ChooseMayComplete(c) THEN "true" ELSE "false",
              drew |-> FALSE ]
      [] OTHER -> [ c |-> c, r |-> "false", drew |-> FALSE ]

\* the Choose update whose Down also toggles the option it arrives at
ChooseUpdateDownSelects(c, ev, io) ==
    CASE ev.code = "Down" ->
            IF c.cursor_loc # Len(c.choices) - 1
                THEN LET d == ChooseToggle([ c EXCEPT !.cursor_loc = c.cursor_loc + 1 ])
                     IN  [ c |-> d, r |-> AfterRedraw(d, TRUE, io), drew |-> TRUE ]
                ELSE [ c |-> c, r |-> "false", drew |-> FALSE ]
      [] ev.code = "Up" ->
            IF c.cursor_loc # 0
                THEN LET d == [ c EXCEPT !.cursor_loc = c.cursor_loc - 1 ]
                     IN  [ c |-> d, r |-> AfterRedraw(d, TRUE, io), drew |-> TRUE ]
                ELSE [ c |-> c, r |-> "false", drew |-> FALSE ]
      [] ev.code = "Char" /\ ev.ch = " " ->
            LET d == ChooseToggle(c)
            IN  [ c |-> d, r |-> AfterRedraw(d, TRUE, io), drew |-> TRUE ]
      [] ev.code = "Enter" ->
            [ c |-> c, r |-> IF ChooseMayComplete(c) THEN "true" ELSE "false",
              drew |-> FALSE ]
      [] OTHER -> [ c |-> c, r |-> "false", drew |-> FALSE ]

\* The Choose arm of Component::update
ChooseUpdate(c, ev, io) ==
    CASE ev.code = "Down" ->
            IF c.cursor_loc # Len(c.choices) - 1
                THEN LET d == [ c EXCEPT !.cursor_loc = c.cursor_loc + 1 ]
                     IN  [ c |-> d, r |-> AfterRedraw(d, TRUE, io), drew |-> TRUE ]
                ELSE [ c |-> c, r |-> "false", drew |-> FALSE ]
      [] ev.code = "Up" ->
            IF c.cursor_loc # 0
                THEN LET d == [ c EXCEPT !.cursor_loc = c.cursor_loc - 1 ]
                     IN  [ c |-> d, r |-> AfterRedraw(d, TRUE, io), drew |-> TRUE ]
                ELSE [ c |-> c, r |-> "false", drew |-> FALSE ]
      [] ev.code = "Char" /\ ev.ch = " " ->
            LET d == ChooseToggle(c)
            IN  [ c |-> d, r |-> AfterRedraw(d, TRUE, io), drew |-> TRUE ]
      [] ev.code = "Enter" ->
            [ c |-> c, r |-> IF ChooseMayComplete(c) THEN "true" ELSE "false",
              drew |-> FALSE ]
      [] OTHER -> [ c |-> c, r |-> "false", drew |-> FALSE ]

\* the update in which any key moves the Spinner to its next frame
Component_updateKeyAdvances(c, ev, io) ==
    CASE c.kind = "Text" -> TextUpdate(c, ev, io)
      [] c.kind = "Confirm" -> ConfirmUpdate(c, ev, io)
      [] c.kind = "Choose" -> ChooseUpdate(c, ev, io)
      [] c.kind = "Spinner" ->
            LET d == [ c EXCEPT !.progress = (c.progress + 1) % Len(c.chars) ]
            IN  [ c |-> d, r |-> AfterRedraw(d, TRUE, io), drew |-> TRUE ]
      [] OTHER -> [ c |-> c, r |-> "false", drew |-> FALSE ]

\* the update in which Enter completes the Spinner
Component_updateEnterEndsSpinner(c, ev, io) ==
    CASE c.kind = "Text" -> TextUpdate(c, ev, io)
      [] c.kind = "Confirm" -> ConfirmUpdate(c, ev, io)
      [] c.kind = "Choose" -> ChooseUpdate(c, ev, io)
      [] c.kind = "Spinner" /\ ev.code = "Enter" ->
            [ c |-> c, r |-> "true", drew |-> FALSE ]
      [] OTHER -> [ c |-> c, r |-> "false", drew |-> FALSE ]

\* Component::update
Component_update(c, ev, io) ==
    CASE c.kind = "Text" -> TextUpdate(c, ev, io)
      [] c.kind = "Confirm" -> ConfirmUpdate(c, ev, io)
      [] c.kind = "Choose" -> ChooseUpdate(c, ev, io)
      [] OTHER -> [ c |-> c, r |-> "false", drew |-> FALSE ]

----------------------------------------------------------------------------
(* component.rs and the per-variant files: the ComponentTrait implementors *)

\* from_opts of component.rs without the rev() over the graphemes
Trait_from_optsNoRev(o) ==
    CASE o.subcommand = "Text" ->
            [ kind |-> "Text", width |-> o.width, placeholder |-> o.placeholder,
              input |-> << >> ]
      [] o.subcommand = "Confirm" ->
            [ kind |-> "Confirm", confirmed |-> FALSE ]
      [] o.subcommand = "Spinner" ->
            [ kind |-> "Spinner", speed |-> o.speed,
              chars |-> SpinnerChars(o.spinner_style),
              elapsed |-> 0, progress |-> 0 ]
      [] o.subcommand = "Typer" ->
            [ kind |-> "Typer", speed |-> o.speed, wait |-> o.wait,
              graphemes |-> Graphemes(o.text), elapsed |-> 0,
              done_printing |-> FALSE ]
      [] o.subcommand = "Choose" ->
            [ kind |-> "Choose", inexact |-> o.inexact, choices |-> o.stdin,
              chosen |-> LruNew, cursor_loc |-> 0,
              selections |-> o.selections ]

\* Component::from_opts of component.rs
Trait_from_opts(o) ==
    CASE o.subcommand = "Text" ->
            [ kind |-> "Text", width |-> o.width, placeholder |-> o.placeholder,
              input |-> << >> ]
      [] o.subcommand = "Confirm" ->
            [ kind |-> "Confirm", confirmed |-> FALSE ]
      [] o.subcommand = "Spinner" ->
            [ kind |-> "Spinner", speed |-> o.speed,
              chars |-> SpinnerChars(o.spinner_style),
              elapsed |-> 0, progress |-> 0 ]
      [] o.subcommand = "Typer" ->
            [ kind |-> "Typer", speed |-> o.speed, wait |-> o.wait,
              graphemes |-> Reverse(Graphemes(o.text)), elapsed |-> 0,
              done_printing |-> FALSE ]
      [] o.subcommand = "Choose" ->
            [ kind |-> "Choose", inexact |-> o.inexact, choices |-> o.stdin,
              chosen |-> LruNew, cursor_loc |-> 0,
              selections |-> o.selections ]

\* Result<String, u8> of ComponentTrait::result: "the result and return code"
Ok(payload) == [ called |-> TRUE, ok |-> TRUE, payload |-> payload, code |-> 0 ]
Err(code) == [ called |-> TRUE, ok |-> FALSE, payload |-> << >>, code |-> code ]

\* the return code a Result<String, u8> carries
ResultStatus(res) == IF res.ok THEN 0 ELSE res.code

\* Text::result
Text_result(c) == Ok(c.input)

\* Confirm::result
Confirm_result(c) == IF c.confirmed THEN Ok(<< >>) ELSE Err(0)

\* Spinner::result
Spinner_result(c, ch, io) ==
    IF io = "try_wait" THEN [ res |-> Err(1), child |-> ch ]
    ELSE IF TryWait(ch).some
        THEN [ res |-> IF Success(ch.exit) THEN Ok(<< >>) ELSE Err(StatusCode(ch.exit)),
               child |-> TryWait(ch).child ]
    ELSE [ res |-> Err(1), child |-> Kill(ch) ]

\* Typer::result
Typer_result(c) == Ok(<< >>)

\* Choose::result
Choose_result(c) == Ok(Join(FilterMapGet(LruIter(c.chosen), c.choices), << "\n" >>))

\* ComponentTrait::result, dispatched over the variants
Trait_result(c, ch, io) ==
    CASE c.kind = "Spinner" -> Spinner_result(c, ch, io)
      [] c.kind = "Text" -> [ res |-> Text_result(c), child |-> ch ]
      [] c.kind = "Confirm" -> [ res |-> Confirm_result(c), child |-> ch ]
      [] c.kind = "Typer" -> [ res |-> Typer_result(c), child |-> ch ]
      [] c.kind = "Choose" -> [ res |-> Choose_result(c), child |-> ch ]

\* Spinner::tick
Spinner_tick(c, ch, ty, io) ==
    IF io = "try_wait"
        THEN [ c |-> c, r |-> "err", child |-> ch, typed |-> ty ]
    ELSE IF TryWait(ch).some
        THEN [ c |-> c, r |-> "true", child |-> TryWait(ch).child, typed |-> ty ]
    ELSE IF c.elapsed > c.speed
        THEN [ c |-> [ c EXCEPT !.progress = (c.progress + 1) % Len(c.chars),
                                !.elapsed = 0 ],
               r |-> "false", child |-> ch, typed |-> ty ]
    ELSE [ c |-> c, r |-> "false", child |-> ch, typed |-> ty ]

\* Typer::tick: graphemes holds the text reversed, pop() takes its last entry
Typer_tick(c, ch, ty, io) ==
    IF c.done_printing
        THEN [ c |-> c, r |-> IF c.elapsed > c.wait THEN "true" ELSE "false",
               child |-> ch, typed |-> ty ]
    ELSE IF c.elapsed > c.speed
        THEN IF c.graphemes # << >>
                THEN LET popped == SubSeq(c.graphemes, 1, Len(c.graphemes) - 1)
                         g == c.graphemes[Len(c.graphemes)]
                     IN  IF io = "print"
                            THEN [ c |-> [ c EXCEPT !.graphemes = popped ],
                                   r |-> "err", child |-> ch, typed |-> ty ]
                            ELSE [ c |-> [ c EXCEPT !.graphemes = popped,
                                                    !.elapsed = 0 ],
                                   r |-> "false", child |-> ch,
                                   typed |-> Append(ty, g) ]
                ELSE [ c |-> [ c EXCEPT !.done_printing = TRUE ], r |-> "false",
                       child |-> ch, typed |-> ty ]
    ELSE [ c |-> c, r |-> "false", child |-> ch, typed |-> ty ]

\* ComponentTrait::tick, dispatched; the default body returns Ok(false)
Trait_tick(c, ch, ty, io) ==
    CASE c.kind = "Spinner" -> Spinner_tick(c, ch, ty, io)
      [] c.kind = "Typer" -> Typer_tick(c, ch, ty, io)
      [] OTHER -> [ c |-> c, r |-> "false", child |-> ch, typed |-> ty ]

\* Text::handle_event
Text_handle_event(c, ev) ==
    CASE ev.code = "Char" ->
            [ c |-> [ c EXCEPT !.input = Append(c.input, ev.ch) ], r |-> "false" ]
      [] ev.code = "Backspace" ->
            [ c |-> [ c EXCEPT !.input =
                        IF c.input = << >> THEN << >>
                        ELSE SubSeq(c.input, 1, Len(c.input) - 1) ],
              r |-> "false" ]
      [] ev.code = "Enter" /\ ev.modifiers = "NONE" -> [ c |-> c, r |-> "true" ]
      [] OTHER -> [ c |-> c, r |-> "false" ]

\* Confirm::update, the event handler of confirm.rs
Confirm_update(c, ev) ==
    CASE ev.code = "Right" -> [ c |-> [ c EXCEPT !.confirmed = TRUE ], r |-> "false" ]
      [] ev.code = "Left" -> [ c |-> [ c EXCEPT !.confirmed = FALSE ], r |-> "false" ]
      [] ev.code = "Enter" /\ ev.modifiers = "NONE" -> [ c |-> c, r |-> "true" ]
      [] OTHER -> [ c |-> c, r |-> "false" ]

\* Choose::handle_event
Choose_handle_event(c, ev) ==
    CASE ev.code = "Down" ->
            [ c |-> IF c.cursor_loc # Len(c.choices) - 1
                        THEN [ c EXCEPT !.cursor_loc = c.cursor_loc + 1 ] ELSE c,
              r |-> "false" ]
      [] ev.code = "Up" ->
            [ c |-> IF c.cursor_loc # 0
                        THEN [ c EXCEPT !.cursor_loc = c.cursor_loc - 1 ] ELSE c,
              r |-> "false" ]
      [] ev.code = "Char" /\ ev.ch = " " ->
            LET curself == LruContains(c.chosen, c.cursor_loc)
                got == LruGet(c.chosen, c.cursor_loc)
            IN  [ c |-> IF curself
                          THEN [ c EXCEPT !.chosen = LruPop(got, c.cursor_loc) ]
                          ELSE [ c EXCEPT !.chosen =
                                   LruPush(got, c.selections, c.cursor_loc) ],
                  r |-> "false" ]
      [] ev.code = "Enter" ->
            [ c |-> c,
              r |-> IF c.inexact \/ LruLen(c.chosen) = c.selections
                        THEN "true" ELSE "false" ]
      [] OTHER -> [ c |-> c, r |-> "false" ]

\* ComponentTrait::handle_event, dispatched; Spinner and Typer return Ok(false)
Trait_handle_event(c, ev) ==
    CASE c.kind = "Text" -> Text_handle_event(c, ev)
      [] c.kind = "Confirm" -> Confirm_update(c, ev)
      [] c.kind = "Choose" -> Choose_handle_event(c, ev)
      [] OTHER -> [ c |-> c, r |-> "false" ]

\* Text::draw: the style and the text it prints after the prefix
Text_draw(c) == TextWindow(c.width, c.placeholder, c.input)

\* ComponentTrait::draw, dispatched: how the call ends and what is on the
\* screen after it.  No implementor clears the screen; Typer::draw writes
\* nothing.
Trait_draw(c, scr, io) ==
    IF c.kind = "Typer" THEN [ r |-> "ok", screen |-> scr ]
    ELSE IF io = "draw" THEN [ r |-> "err", screen |-> TornFrame ]
    ELSE IF c.kind = "Text" /\ c.input # << >> /\ c.width = 0 /\ io = "overflow"
        THEN [ r |-> "panic", screen |-> TornFrame ]
    ELSE IF c.kind = "Spinner" /\ c.progress >= Len(c.chars)
        THEN [ r |-> "panic", screen |-> TornFrame ]
    ELSE [ r |-> "ok",
           screen |-> IF c.kind = "Text" THEN Text_draw(c) ELSE Component_frame(c) ]

----------------------------------------------------------------------------
(* main(): one action per statement of src/src/main.rs, lines 691-746 *)

NoComponent == [ kind |-> "None" ]

NoResult == [ called |-> FALSE, ok |-> TRUE, payload |-> << >>, code |-> 0 ]

Ended == { "exited", "returned_err", "panicked" }

LoopPcs == { "tick", "poll", "read", "update" }

\* the statuses a process that did not call exit() ends with
ErrExitCode == 1
PanicExitCode == 101

loopVars == << pc, component, events, event, interrupted, terminal, child, typed,
               to_print, err_code, stdout, exit_code, result_called, insert_log,
               evicted, screen, drew >>

traitVars == << tcomponent, tdone, tresult >>

\* an Err return that the runtime reports as success
ReturnErrAsSuccess ==
    /\ pc' = "returned_err"
    /\ exit_code' = 0

\* `?` on an Err: main returns Err(()) and the runtime exits with status 1
ReturnErr ==
    /\ pc' = "returned_err"
    /\ exit_code' = ErrExitCode

\* unwrap() on an Err, panic!(), or a failed overflow check
Panic ==
    /\ pc' = "panicked"
    /\ exit_code' = PanicExitCode

Init ==
    /\ pc = "from_opts"
    /\ opts \in OptsSet
    /\ component = NoComponent
    /\ events = << >>
    /\ event = NoEvent
    /\ interrupted = FALSE
    /\ terminal = [ alt |-> FALSE, hidden |-> FALSE, raw |-> FALSE ]
    /\ child = NoChild
    /\ typed = << >>
    /\ to_print = << >>
    /\ err_code = 0
    /\ stdout = << >>
    /\ exit_code = 0
    /\ result_called = FALSE
    /\ insert_log = << >>
    /\ evicted = FALSE
    /\ tcomponent = NoComponent
    /\ screen = NoFrame
    /\ drew = FALSE
    /\ tdone = "new"
    /\ tresult = NoResult

\* let mut component = Component::from_opts(&opts);
FromOpts ==
    /\ pc = "from_opts"
    /\ IF FromOptsPanics(opts)
          THEN /\ Panic
               /\ UNCHANGED << component, child >>
          ELSE /\ component' = Component_from_opts(opts)
               /\ child' = IF opts.subcommand = "Spinner" THEN SpawnedChild ELSE child
               /\ pc' = "enter_alt"
               /\ UNCHANGED exit_code
    /\ UNCHANGED << opts, events, event, interrupted, terminal, typed, to_print,
                    err_code, stdout, result_called, insert_log, evicted >>
    /\ drew' = FALSE
    /\ UNCHANGED screen
    /\ UNCHANGED traitVars

\* execute!(screen, EnterAlternateScreen, Hide).drop_error()?;
EnterAlt ==
    /\ pc = "enter_alt"
    /\ \E ok \in BOOLEAN :
          IF ok THEN /\ terminal' = [ terminal EXCEPT !.alt = TRUE, !.hidden = TRUE ]
                     /\ pc' = "enable_raw"
                     /\ UNCHANGED exit_code
                ELSE ReturnErr /\ UNCHANGED terminal
    /\ UNCHANGED << opts, component, events, event, interrupted, child, typed,
                    to_print, err_code, stdout, result_called, insert_log, evicted >>
    /\ drew' = FALSE
    /\ UNCHANGED screen
    /\ UNCHANGED traitVars

\* enable_raw_mode().drop_error()?;
EnableRaw ==
    /\ pc = "enable_raw"
    /\ \E ok \in BOOLEAN :
          IF ok THEN /\ terminal' = [ terminal EXCEPT !.raw = TRUE ]
                     /\ pc' = "draw"
                     /\ UNCHANGED exit_code
                ELSE ReturnErr /\ UNCHANGED terminal
    /\ UNCHANGED << opts, component, events, event, interrupted, child, typed,
                    to_print, err_code, stdout, result_called, insert_log, evicted >>
    /\ drew' = FALSE
    /\ UNCHANGED screen
    /\ UNCHANGED traitVars

\* component.draw(&mut screen)?;  let mut interrupted = false;
FirstDraw ==
    /\ pc = "draw"
    /\ \E io \in { "ok", "draw", "overflow" } :
          LET d == Component_draw(component, io)
          IN  /\ CASE d = "ok" -> pc' = "tick" /\ UNCHANGED exit_code
                   [] d = "err" -> ReturnErr
                   [] d = "panic" -> Panic
              /\ screen' = Drawn(component, io)
              /\ component' = IF d = "ok" THEN Component_afterDraw(component)
                                          ELSE component
    /\ drew' = TRUE
    /\ interrupted' = FALSE
    /\ UNCHANGED << opts, events, event, terminal, child, typed,
                    to_print, err_code, stdout, result_called, insert_log, evicted >>
    /\ UNCHANGED traitVars

\* the top of the loop with the test for a pending interrupt ahead of tick
TickAfterInterruptTest ==
    /\ pc = "tick"
    /\ IF events # << >> /\ IsInterrupt(Head(events))
          THEN /\ interrupted' = TRUE
               /\ events' = Tail(events)
               /\ event' = Head(events)
               /\ pc' = "disable_raw"
               /\ drew' = FALSE
               /\ UNCHANGED << component, child, typed, screen, exit_code >>
          ELSE /\ \E io \in { "ok", "try_wait", "print", "draw", "overflow" } :
                     LET t == Component_tick(component, child, typed, io)
                     IN  /\ component' = IF t.drew THEN Component_afterDraw(t.c) ELSE t.c
                         /\ child' = t.child
                         /\ typed' = t.typed
                         /\ CASE t.r = "true" -> pc' = "disable_raw" /\ UNCHANGED exit_code
                              [] t.r = "false" -> pc' = "poll" /\ UNCHANGED exit_code
                              [] t.r = "err" -> ReturnErr
                              [] t.r = "panic" -> Panic
                         /\ screen' = IF t.drew THEN Drawn(t.c, io) ELSE screen
                         /\ drew' = t.drew
               /\ event' = NoEvent
               /\ UNCHANGED << events, interrupted >>
    /\ UNCHANGED << opts, terminal, to_print, err_code, stdout, result_called,
                    insert_log, evicted >>
    /\ UNCHANGED traitVars

\* if component.tick(&mut screen)? { break; }
\* A new iteration: the `event` of the previous one is out of scope.
Tick ==
    /\ pc = "tick"
    /\ \E io \in { "ok", "try_wait", "print", "draw", "overflow" } :
          LET t == Component_tick(component, child, typed, io)
          IN  /\ component' = IF t.drew THEN Component_afterDraw(t.c) ELSE t.c
              /\ child' = t.child
              /\ typed' = t.typed
              /\ CASE t.r = "true" -> pc' = "disable_raw" /\ UNCHANGED exit_code
                   [] t.r = "false" -> pc' = "poll" /\ UNCHANGED exit_code
                   [] t.r = "err" -> ReturnErr
                   [] t.r = "panic" -> Panic
              /\ screen' = IF t.drew THEN Drawn(t.c, io) ELSE screen
              /\ drew' = t.drew
    /\ event' = NoEvent
    /\ UNCHANGED << opts, events, interrupted, terminal, to_print,
                    err_code, stdout, result_called, insert_log, evicted >>
    /\ UNCHANGED traitVars

\* if !poll(Duration::from_millis(50)).unwrap() { continue; }
Poll ==
    /\ pc = "poll"
    /\ \E ok \in BOOLEAN :
          IF ~ok THEN Panic
          ELSE /\ pc' = IF events = << >> THEN "tick" ELSE "read"
               /\ UNCHANGED exit_code
    /\ UNCHANGED << opts, component, events, event, interrupted, terminal, child,
                    typed, to_print, err_code, stdout, result_called, insert_log, evicted >>
    /\ drew' = FALSE
    /\ UNCHANGED screen
    /\ UNCHANGED traitVars

\* let event = read().drop_error()?;  then the test for control c
Read ==
    /\ pc = "read"
    /\ events # << >>
    /\ \E ok \in BOOLEAN :
          IF ~ok THEN ReturnErr /\ UNCHANGED << events, event, interrupted >>
          ELSE /\ event' = Head(events)
               /\ events' = Tail(events)
               /\ IF IsInterrupt(Head(events))
                     THEN interrupted' = TRUE /\ pc' = "disable_raw"
                     ELSE UNCHANGED interrupted /\ pc' = "update"
               /\ UNCHANGED exit_code
    /\ UNCHANGED << opts, component, terminal, child, typed, to_print, err_code,
                    stdout, result_called, insert_log, evicted >>
    /\ drew' = FALSE
    /\ UNCHANGED screen
    /\ UNCHANGED traitVars

\* the indices pushed into the cache and still in it, oldest push first
LogToggle(log, before, after, k) ==
    IF k \in Range(before) THEN Remove(log, k)
    ELSE Append(SelectSeq(log, LAMBDA x : x \in Range(after)), k)

\* whether toggling k pushed it and the push evicted an entry
PushEvicted(before, after, k) ==
    k \notin Range(before) /\ Range(before) \ Range(after) # { }

\* the update statement followed by the wait for the next event, without the
\* tick in between
UpdateThenPoll ==
    /\ pc = "update"
    /\ \E io \in { "ok", "draw", "overflow" } :
          LET u == Component_update(component, event, io)
          IN  /\ component' = IF u.drew THEN Component_afterDraw(u.c) ELSE u.c
              /\ CASE u.r = "true" -> pc' = "disable_raw" /\ UNCHANGED exit_code
                   [] u.r = "false" -> pc' = "poll" /\ UNCHANGED exit_code
                   [] u.r = "err" -> ReturnErr
                   [] u.r = "panic" -> Panic
              /\ screen' = IF u.drew THEN Drawn(u.c, io) ELSE screen
              /\ drew' = u.drew
              /\ insert_log' =
                    IF component.kind = "Choose" /\ event.code = "Char" /\ event.ch = " "
                        THEN LogToggle(insert_log, component.chosen, u.c.chosen,
                                       component.cursor_loc)
                        ELSE insert_log
              /\ evicted' =
                    IF component.kind = "Choose" /\ event.code = "Char" /\ event.ch = " "
                        THEN PushEvicted(component.chosen, u.c.chosen,
                                         component.cursor_loc)
                        ELSE evicted
    /\ UNCHANGED << opts, events, event, interrupted, terminal, child, typed,
                    to_print, err_code, stdout, result_called >>
    /\ UNCHANGED traitVars

\* if component.update(&event, &mut screen)? { break; }
Update ==
    /\ pc = "update"
    /\ \E io \in { "ok", "draw", "overflow" } :
          LET u == Component_update(component, event, io)
          IN  /\ component' = IF u.drew THEN Component_afterDraw(u.c) ELSE u.c
              /\ CASE u.r = "true" -> pc' = "disable_raw" /\ UNCHANGED exit_code
                   [] u.r = "false" -> pc' = "tick" /\ UNCHANGED exit_code
                   [] u.r = "err" -> ReturnErr
                   [] u.r = "panic" -> Panic
              /\ screen' = IF u.drew THEN Drawn(u.c, io) ELSE screen
              /\ drew' = u.drew
              /\ insert_log' =
                    IF component.kind = "Choose" /\ event.code = "Char" /\ event.ch = " "
                        THEN LogToggle(insert_log, component.chosen, u.c.chosen,
                                       component.cursor_loc)
                        ELSE insert_log
              /\ evicted' =
                    IF component.kind = "Choose" /\ event.code = "Char" /\ event.ch = " "
                        THEN PushEvicted(component.chosen, u.c.chosen,
                                         component.cursor_loc)
                        ELSE evicted
    /\ UNCHANGED << opts, events, event, interrupted, terminal, child, typed,
                    to_print, err_code, stdout, result_called >>
    /\ UNCHANGED traitVars


\* disable_raw_mode().drop_error()?;
DisableRaw ==
    /\ pc = "disable_raw"
    /\ \E ok \in BOOLEAN :
          IF ok THEN /\ terminal' = [ terminal EXCEPT !.raw = FALSE ]
                     /\ pc' = "leave_alt"
                     /\ UNCHANGED exit_code
                ELSE ReturnErr /\ UNCHANGED terminal
    /\ UNCHANGED << opts, component, events, event, interrupted, child, typed,
                    to_print, err_code, stdout, result_called, insert_log, evicted >>
    /\ drew' = FALSE
    /\ UNCHANGED screen
    /\ UNCHANGED traitVars

\* execute!(screen, Show, LeaveAlternateScreen).drop_error()?;
LeaveAlt ==
    /\ pc = "leave_alt"
    /\ \E ok \in BOOLEAN :
          IF ok THEN /\ terminal' = [ terminal EXCEPT !.alt = FALSE, !.hidden = FALSE ]
                     /\ pc' = "result"
                     /\ UNCHANGED exit_code
                ELSE ReturnErr /\ UNCHANGED terminal
    /\ UNCHANGED << opts, component, events, event, interrupted, child, typed,
                    to_print, err_code, stdout, result_called, insert_log, evicted >>
    /\ drew' = FALSE
    /\ UNCHANGED screen
    /\ UNCHANGED traitVars

\* the status main() reports for an interrupted run
InterruptedStatus == 1

\* let (to_print, err_code) = if interrupted { ("".to_owned(), 1) }
\*                            else { component.result()? };
Result ==
    /\ pc = "result"
    /\ IF interrupted
          THEN /\ to_print' = << >>
               /\ err_code' = InterruptedStatus
               /\ pc' = "print"
               /\ UNCHANGED << child, result_called, exit_code >>
          ELSE \E io \in { "ok", "try_wait" } :
                  LET res == Component_result(component, child, io)
                  IN  /\ result_called' = TRUE
                      /\ child' = res.child
                      /\ IF res.r = "ok"
                            THEN /\ to_print' = res.payload
                                 /\ err_code' = res.status
                                 /\ pc' = "print"
                                 /\ UNCHANGED exit_code
                            ELSE ReturnErr /\ UNCHANGED << to_print, err_code >>
    /\ UNCHANGED << opts, component, events, event, interrupted, terminal, typed,
                    stdout, insert_log, evicted >>
    /\ drew' = FALSE
    /\ UNCHANGED screen
    /\ UNCHANGED traitVars

\* println! in the place of print!: the payload and a line end
PrintlnPayload ==
    /\ pc = "print"
    /\ \E ok \in BOOLEAN :
          IF ok THEN /\ stdout' = Append(stdout, to_print \o << "\n" >>)
                     /\ pc' = "exit"
                     /\ UNCHANGED exit_code
                ELSE Panic /\ UNCHANGED stdout
    /\ UNCHANGED << opts, component, events, event, interrupted, terminal, child,
                    typed, to_print, err_code, result_called, insert_log, evicted >>
    /\ drew' = FALSE
    /\ UNCHANGED screen
    /\ UNCHANGED traitVars

\* print!("{}", to_print);
PrintPayload ==
    /\ pc = "print"
    /\ \E ok \in BOOLEAN :
          IF ok THEN /\ stdout' = Append(stdout, to_print)
                     /\ pc' = "exit"
                     /\ UNCHANGED exit_code
                ELSE Panic /\ UNCHANGED stdout
    /\ UNCHANGED << opts, component, events, event, interrupted, terminal, child,
                    typed, to_print, err_code, result_called, insert_log, evicted >>
    /\ drew' = FALSE
    /\ UNCHANGED screen
    /\ UNCHANGED traitVars

\* std::process::exit(err_code as i32);
Exit ==
    /\ pc = "exit"
    /\ pc' = "exited"
    /\ exit_code' = err_code
    /\ UNCHANGED << opts, component, events, event, interrupted, terminal, child,
                    typed, to_print, err_code, stdout, result_called, insert_log, evicted >>
    /\ drew' = FALSE
    /\ UNCHANGED screen
    /\ UNCHANGED traitVars

----------------------------------------------------------------------------
(* The environment of main() *)

\* characters typed and not yet handled by the Text prompt
PendingChars == Len(SelectSeq(events, LAMBDA e : e.code = "Char"))

\* The keys the user presses at a prompt: every key the prompt has an arm
\* for, the interrupt, and keys it has no arm for.
KeysAt(kind) ==
    CASE kind = "Text" ->
            { ev \in Events : ev.code \in { "Char", "Backspace", "Enter", "Up" }
                                /\ ev.ch # " " }
      [] kind = "Confirm" ->
            { ev \in Events : ev.code \in { "Left", "Right", "Enter", "Up" }
                                \/ ev.ch = "c" }
      [] kind = "Choose" ->
            { ev \in Events : ev.code \in { "Up", "Down", "Enter", "Left" }
                                \/ ev.ch = " " \/ IsInterrupt(ev) }
      [] OTHER ->
            { ev \in Events : ev.code \in { "Down", "Enter" } \/ ev.ch = "c" }

\* The user presses a key; the event source queues it until it is read.  The
\* loop looks at the event source in poll alone, so a key pressed during read
\* or update is one pressed before the next tick.
KeyPress ==
    /\ pc \in { "tick", "poll" }
    /\ Len(events) < MaxPending
    /\ \E ev \in KeysAt(component.kind) :
          /\ (component.kind = "Text" /\ ev.code = "Char" /\ ~IsInterrupt(ev))
                => Len(component.input) + PendingChars < MaxInput
          /\ events' = Append(events, ev)
    /\ UNCHANGED << screen, drew, pc, opts, component, event, interrupted, terminal,
                    child, typed,
                    to_print, err_code, stdout, exit_code, result_called,
                    insert_log, evicted >>
    /\ UNCHANGED traitVars

\* The child process ends on its own.
ChildExit ==
    /\ pc \notin Ended
    /\ child.status = "running"
    /\ \E st \in ExitStatuses :
          child' = [ child EXCEPT !.status = "exited", !.exit = st ]
    /\ UNCHANGED << screen, drew, pc, opts, component, events, event, interrupted, terminal, typed,
                    to_print, err_code, stdout, exit_code, result_called,
                    insert_log, evicted >>
    /\ UNCHANGED traitVars

\* Time passes: every Instant::elapsed() grows.
TimePass ==
    /\ pc \in LoopPcs \cup { "enter_alt", "enable_raw", "draw" }
    /\ HasTimer(component)
    /\ component.elapsed <= Horizon(component)
    /\ component' = [ component EXCEPT !.elapsed = component.elapsed + 1 ]
    /\ UNCHANGED << screen, drew, pc, opts, events, event, interrupted, terminal, child, typed,
                    to_print, err_code, stdout, exit_code, result_called,
                    insert_log, evicted >>
    /\ UNCHANGED traitVars

Next ==
    \/ FromOpts
    \/ EnterAlt
    \/ EnableRaw
    \/ FirstDraw
    \/ Tick
    \/ Poll
    \/ Read
    \/ Update
    \/ DisableRaw
    \/ LeaveAlt
    \/ Result
    \/ PrintPayload
    \/ Exit
    \/ KeyPress
    \/ ChildExit
    \/ TimePass

Spec == Init /\ [][Next]_vars

----------------------------------------------------------------------------
(* The ComponentTrait implementors, driven call by call: construction, then *)
(* tick and handle_event in any order until one returns Ok(true) or fails,  *)
(* and result(self), which consumes the component.                          *)

TLive == tcomponent.kind # "None" /\ ~tresult.called /\ tdone \in { "new", "false" }

\* Component::from_opts(&opts)
TFromOpts ==
    /\ tcomponent.kind = "None"
    /\ tdone = "new"
    /\ IF FromOptsPanics(opts)
          THEN tdone' = "panic" /\ UNCHANGED << tcomponent, child >>
          ELSE /\ tcomponent' = Trait_from_opts(opts)
               /\ child' = IF opts.subcommand = "Spinner" THEN SpawnedChild ELSE child
               /\ UNCHANGED tdone
    /\ UNCHANGED << screen, drew, pc, opts, component, events, event, interrupted, terminal, typed,
                    to_print, err_code, stdout, exit_code, result_called,
                    insert_log, evicted, tresult >>

\* component.tick(&mut screen)
TTick ==
    /\ TLive
    /\ \E io \in { "ok", "try_wait", "print" } :
          LET t == Trait_tick(tcomponent, child, typed, io)
          IN  /\ tcomponent' = t.c
              /\ child' = t.child
              /\ typed' = t.typed
              /\ tdone' = t.r
    /\ UNCHANGED << screen, drew, pc, opts, component, events, event, interrupted, terminal,
                    to_print, err_code, stdout, exit_code, result_called,
                    insert_log, evicted, tresult >>

\* component.handle_event(&event, &mut screen), for an event that is not the
\* interrupt combination
THandleEvent ==
    /\ TLive
    /\ \E ev \in { e \in Events : ~IsInterrupt(e) } :
          LET h == Trait_handle_event(tcomponent, ev)
          IN  /\ (tcomponent.kind = "Text" /\ ev.code = "Char")
                    => Len(tcomponent.input) < MaxInput
              /\ tcomponent' = h.c
              /\ tdone' = h.r
              /\ event' = ev
              /\ insert_log' =
                    IF tcomponent.kind = "Choose" /\ ev.code = "Char" /\ ev.ch = " "
                        THEN LogToggle(insert_log, tcomponent.chosen, h.c.chosen,
                                       tcomponent.cursor_loc)
                        ELSE insert_log
              /\ evicted' =
                    IF tcomponent.kind = "Choose" /\ ev.code = "Char" /\ ev.ch = " "
                        THEN PushEvicted(tcomponent.chosen, h.c.chosen,
                                         tcomponent.cursor_loc)
                        ELSE evicted
    /\ UNCHANGED << screen, drew, pc, opts, component, events, interrupted, terminal, child, typed,
                    to_print, err_code, stdout, exit_code, result_called, tresult >>

\* component.draw(&mut screen)
TDraw ==
    /\ TLive
    /\ \E io \in { "ok", "draw", "overflow" } :
          LET d == Trait_draw(tcomponent, screen, io)
          IN  /\ screen' = d.screen
              /\ tdone' = IF d.r = "ok" THEN tdone ELSE d.r
              /\ tcomponent' = IF d.r = "ok" THEN Component_afterDraw(tcomponent)
                                            ELSE tcomponent
    /\ UNCHANGED << drew, pc, opts, component, events, event, interrupted, terminal,
                    child, typed, to_print, err_code, stdout, exit_code,
                    result_called, insert_log, evicted, tresult >>

\* component.result()
TResult ==
    /\ tcomponent.kind # "None"
    /\ ~tresult.called
    /\ tdone \notin { "err", "panic" }
    /\ \E io \in { "ok", "try_wait" } :
          LET res == Trait_result(tcomponent, child, io)
          IN  /\ tresult' = res.res
              /\ child' = res.child
    /\ UNCHANGED << screen, drew, pc, opts, component, events, event, interrupted, terminal, typed,
                    to_print, err_code, stdout, exit_code, result_called,
                    insert_log, evicted, tcomponent, tdone >>

\* The child process ends on its own.
TChildExit ==
    /\ child.status = "running"
    /\ \E st \in ExitStatuses :
          child' = [ child EXCEPT !.status = "exited", !.exit = st ]
    /\ UNCHANGED << screen, drew, pc, opts, component, events, event, interrupted, terminal, typed,
                    to_print, err_code, stdout, exit_code, result_called,
                    insert_log, evicted >>
    /\ UNCHANGED traitVars

\* Time passes: every Instant::elapsed() grows.
TTimePass ==
    /\ TLive
    /\ HasTimer(tcomponent)
    /\ tcomponent.elapsed <= Horizon(tcomponent)
    /\ tcomponent' = [ tcomponent EXCEPT !.elapsed = tcomponent.elapsed + 1 ]
    /\ UNCHANGED << screen, drew, pc, opts, component, events, event, interrupted, terminal, child,
                    typed, to_print, err_code, stdout, exit_code, result_called,
                    insert_log, evicted, tdone, tresult >>

TraitNext ==
    \/ TFromOpts
    \/ TTick
    \/ THandleEvent
    \/ TDraw
    \/ TResult
    \/ TChildExit
    \/ TTimePass

TraitSpec == Init /\ [][TraitNext]_vars

----------------------------------------------------------------------------
(* The two implementations side by side: the Component of main.rs and the   *)
(* ComponentTrait implementor of component.rs are built from the same Opts   *)
(* and given the same ticks, the same child, the same clock and the same    *)
(* events, until the implementor reports completion or failure.             *)

PLive == component.kind # "None" /\ TLive

\* Component::from_opts(&opts), both of them
PFromOpts ==
    /\ component.kind = "None"
    /\ tcomponent.kind = "None"
    /\ tdone = "new"
    /\ IF FromOptsPanics(opts)
          THEN tdone' = "panic" /\ UNCHANGED << component, tcomponent, child >>
          ELSE /\ component' = Component_from_opts(opts)
               /\ tcomponent' = Trait_from_opts(opts)
               /\ child' = IF opts.subcommand = "Spinner" THEN SpawnedChild ELSE child
               /\ UNCHANGED tdone
    /\ UNCHANGED << screen, drew, pc, opts, events, event, interrupted, terminal,
                    typed, to_print, err_code, stdout, exit_code, result_called,
                    insert_log, evicted, tresult >>

\* tick on both, over the same child and with the same outcome of the I/O
PTick ==
    /\ PLive
    /\ \E io \in { "ok", "try_wait", "print" } :
          LET m == Component_tick(component, child, typed, io)
              t == Trait_tick(tcomponent, child, typed, io)
          IN  /\ component' = m.c
              /\ tcomponent' = t.c
              /\ child' = t.child
              /\ typed' = t.typed
              /\ tdone' = t.r
    /\ UNCHANGED << screen, drew, pc, opts, events, event, interrupted, terminal,
                    to_print, err_code, stdout, exit_code, result_called,
                    insert_log, evicted, tresult >>

\* the same event, not the interrupt, to update and to handle_event
PHandleEvent ==
    /\ PLive
    /\ \E ev \in { e \in Events : ~IsInterrupt(e) } :
          LET m == Component_update(component, ev, "ok")
              h == Trait_handle_event(tcomponent, ev)
          IN  /\ (tcomponent.kind = "Text" /\ ev.code = "Char")
                    => Len(tcomponent.input) < MaxInput
              /\ component' = m.c
              /\ tcomponent' = h.c
              /\ tdone' = h.r
              /\ event' = ev
    /\ UNCHANGED << screen, drew, pc, opts, events, interrupted, terminal, child,
                    typed, to_print, err_code, stdout, exit_code, result_called,
                    insert_log, evicted, tresult >>

\* result() on both, once the implementor reported completion
PResult ==
    /\ component.kind # "None"
    /\ tdone = "true"
    /\ ~tresult.called
    /\ LET m == Component_result(component, child, "ok")
           t == Trait_result(tcomponent, child, "ok")
       IN  /\ to_print' = m.payload
           /\ err_code' = m.status
           /\ result_called' = TRUE
           /\ tresult' = t.res
           /\ child' = t.child
    /\ UNCHANGED << screen, drew, pc, opts, component, events, event, interrupted,
                    terminal, typed, stdout, exit_code, insert_log, evicted,
                    tcomponent, tdone >>

\* Time passes for both: every Instant::elapsed() grows.
PTimePass ==
    /\ PLive
    /\ HasTimer(component) /\ HasTimer(tcomponent)
    /\ component.elapsed <= Horizon(component)
    /\ component' = [ component EXCEPT !.elapsed = component.elapsed + 1 ]
    /\ tcomponent' = [ tcomponent EXCEPT !.elapsed = tcomponent.elapsed + 1 ]
    /\ UNCHANGED << screen, drew, pc, opts, events, event, interrupted, terminal, child,
                    typed, to_print, err_code, stdout, exit_code, result_called,
                    insert_log, evicted, tdone, tresult >>

PairNext ==
    \/ PFromOpts
    \/ PTick
    \/ PHandleEvent
    \/ PResult
    \/ TChildExit
    \/ PTimePass

PairSpec == Init /\ [][PairNext]_vars

----------------------------------------------------------------------------
(* Properties *)

IsChoose == component.kind = "Choose"

\* the step is main() dispatching a Space key to the Choose prompt
SpaceStep ==
    pc = "update" /\ pc' # "update" /\ IsChoose /\ event.code = "Char" /\ event.ch = " "

\* C1: whatever keys the Choose prompt was sent, its selection cache holds at
\* most `selections` entries.
C1_CacheWithinCapacity ==
    IsChoose => LruLen(component.chosen) <= component.selections

\* C1: a full cache, out of more options than it has room for, whose last
\* insertion evicted an entry
C1_Witness ==
    /\ IsChoose
    /\ LruLen(component.chosen) = component.selections
    /\ Len(component.choices) > component.selections
    /\ evicted

\* C2: Space on a selected index removes just that index; Space on an
\* unselected index inserts it, and when the cache is full the one entry that
\* leaves is the one inserted longest ago; every other entry stays.
C2_Toggle ==
    [][ SpaceStep =>
          LET i == component.cursor_loc
              before == Range(component.chosen)
              after == Range(component'.chosen)
          IN  /\ Range(insert_log) = before
              /\ i \in before =>
                    /\ after = before \ { i }
                    /\ LruLen(component'.chosen) = LruLen(component.chosen) - 1
              /\ (i \notin before /\ LruLen(component.chosen) < component.selections) =>
                    after = before \cup { i }
              /\ (i \notin before /\ LruLen(component.chosen) = component.selections) =>
                    after = (before \ { Head(insert_log) }) \cup { i }
      ]_vars

\* C2: a cache of two or more entries, full, after a Space that evicted one
C2_Witness ==
    /\ IsChoose
    /\ component.selections >= 2
    /\ LruLen(component.chosen) = component.selections
    /\ evicted
    /\ component.cursor_loc \in Range(component.chosen)


\* Choose with capacity 2 over the options a, b, c, exact mode
C3Opts ==
    [ subcommand |-> "Choose", selections |-> 2, inexact |-> FALSE,
      stdin |-> << << "a" >>, << "b" >>, << "c" >> >> ]

\* the prompt of C3Opts completed with a selected first and b second, the
\* cursor on b: what Space, Down, Space, Enter leads to
C3_Witness ==
    /\ opts = C3Opts
    /\ IsChoose
    /\ pc = "print"
    /\ ~interrupted
    /\ insert_log = << 0, 1 >>
    /\ component.cursor_loc = 1

\* C3 as stated: Space, Down, Space, Enter over capacity 2 and options a, b, c
\* in exact mode completes with payload "a\nb", earliest selection first, and
\* status 0.
C3_Original ==
    C3_Witness => to_print = << "a", "\n", "b" >> /\ err_code = 0

\* C3 as amended: the payload of that run is "b\na", the latest selection
\* first, and the status is 0.
C3_Amended ==
    C3_Witness => to_print = << "b", "\n", "a" >> /\ err_code = 0

\* the step is main() dispatching `event` to the Choose prompt
ChooseStep == pc = "update" /\ pc' # "update" /\ IsChoose

\* C4: Enter completes Choose exactly when the prompt is inexact or the cache
\* holds `selections` entries; refused, it returns Continue and changes
\* nothing; no other event completes Choose.
C4_EnterCompletes ==
    [][ ChooseStep =>
          /\ event.code = "Enter" =>
                /\ pc' = "disable_raw" <=>
                      (component.inexact
                          \/ Cardinality(Range(component.chosen)) = component.selections)
                /\ pc' # "disable_raw" => pc' = "tick" /\ component' = component
          /\ event.code # "Enter" => pc' # "disable_raw"
      ]_vars

\* C4: an exact-mode prompt completed by Enter with its cache full
C4_Witness ==
    /\ IsChoose
    /\ ~component.inexact
    /\ pc = "disable_raw"
    /\ ~interrupted
    /\ LruLen(component.chosen) = component.selections

\* Control + 'c'
CtrlC == Key("Char", "c", "CONTROL")

\* everything written to standard output
Written == Join(stdout, << >>)

\* C5: when the event read is Control + 'c' the loop ends at once; the event
\* is not dispatched, result() is not called, nothing is written to standard
\* output and the exit status is the interrupted status, never 0.
C5_Interrupt ==
    /\ [][ (pc = "read" /\ Head(events) = CtrlC /\ pc' \notin { "read", "returned_err" })
              => (pc' = "disable_raw" /\ interrupted' /\ component' = component) ]_vars
    /\ [](event = CtrlC => (interrupted /\ pc # "update"))
    /\ [](interrupted => (~result_called /\ pc \notin LoopPcs))
    /\ []((interrupted /\ pc \in Ended) => (Written = << >> /\ exit_code # 0))
    /\ []((interrupted /\ pc = "exited") => exit_code = InterruptedStatus)

\* C5: an interrupted Text prompt with typed input, exited
C5_Witness ==
    /\ interrupted
    /\ pc = "exited"
    /\ component.kind = "Text"
    /\ component.input # << >>

IsSpinner == component.kind = "Spinner"

\* C6 as stated: when the run of a Spinner has ended, by completion or by
\* interrupt, the child was seen to have exited or was sent a termination
\* request, and an interrupted run reports a non-zero status.
C6_ChildOwned ==
    (IsSpinner /\ pc = "exited") =>
        /\ child.observed \/ child.killed
        /\ interrupted => exit_code # 0

\* C7 as stated: no run ends with the terminal still in raw mode.
C7_TerminalRestored ==
    pc \in Ended => ~terminal.raw

\* C8 as stated: a Confirm completed by plain Enter has the empty payload, and
\* status 0 exactly when it is confirmed.
C8_ConfirmStatus ==
    (tcomponent.kind = "Confirm" /\ tdone = "true" /\ tresult.called) =>
        /\ tresult.payload = << >>
        /\ ResultStatus(tresult) = 0 <=> tcomponent.confirmed

\* C9: a tick of the Spinner that finds the child exited returns Completed,
\* whatever time has elapsed; nothing else completes the Spinner; and after a
\* successful exit the payload is empty and the status 0.
C9_SpinnerCompletion ==
    /\ [][ (IsSpinner /\ pc = "tick" /\ child.status = "exited"
              /\ pc' \notin { "tick", "returned_err" })
              => (pc' = "disable_raw" /\ component' = component) ]_vars
    /\ [][ (IsSpinner /\ pc \in LoopPcs /\ pc' = "disable_raw" /\ ~interrupted')
              => (pc = "tick" /\ child.status = "exited") ]_vars
    /\ []((IsSpinner /\ ~interrupted /\ pc \in { "print", "exit", "exited" }
              /\ Success(child.exit))
              => (to_print = << >> /\ err_code = 0))
    /\ []((IsSpinner /\ ~interrupted /\ pc = "exited" /\ Success(child.exit))
              => (exit_code = 0 /\ Written = << >>))

\* C9: a Spinner whose child succeeded before any frame was due, exited with 0
C9_Witness ==
    /\ IsSpinner
    /\ component.speed >= 1
    /\ pc = "exited"
    /\ ~interrupted
    /\ Success(child.exit)
    /\ component.progress = 0
    /\ component.elapsed = 0
    /\ exit_code = 0

IsTyper == component.kind = "Typer"

IsText == component.kind = "Text"

Min(a, b) == IF a < b THEN a ELSE b

\* the first n and the last n of the graphemes gs, as one string
FirstGraphemes(gs, n) == Join(SubSeq(gs, 1, Min(n, Len(gs))), << >>)
LastGraphemes(gs, n) == Join(SubSeq(gs, Len(gs) - Min(n, Len(gs)) + 1, Len(gs)), << >>)

\* the frame the claim describes for a Text prompt
WindowOf(c) ==
    IF c.input # << >>
        THEN [ kind |-> "Text", is_bg |-> FALSE,
               to_print |-> LastGraphemes(Graphemes(c.input), c.width) ]
        ELSE [ kind |-> "Text", is_bg |-> TRUE,
               to_print |-> FirstGraphemes(Graphemes(c.placeholder), c.width) ]

\* C11 as stated: whatever characters and backspaces the Text prompt was sent,
\* once it is drawn the screen shows the last min(width, length) graphemes of
\* a non-empty input in normal style, and the first min(width, length)
\* graphemes of the placeholder, dimmed, for an empty input; the window is
\* made of whole graphemes.
C11_TextWindowing ==
    (IsText /\ pc \in { "tick", "poll", "read", "update" }) => screen = WindowOf(component)

\* the step is main() dispatching `event` to the Text prompt
TextStep == pc = "update" /\ pc' # "update" /\ IsText

\* C12: the Text buffer starts empty; a character key appends its character,
\* Backspace removes the last character and does nothing to an empty buffer;
\* the prompt completes on Enter without modifiers and on nothing else; the
\* payload of a completed prompt is the buffer as it was then, the status 0.
C12_TextInput ==
    /\ []((IsText /\ pc \in { "enter_alt", "enable_raw", "draw" }) => component.input = << >>)
    /\ [][ TextStep =>
             /\ event.code = "Char" =>
                   component'.input = Append(component.input, event.ch)
             /\ (event.code = "Backspace" /\ component.input # << >>) =>
                   component'.input = SubSeq(component.input, 1, Len(component.input) - 1)
             /\ (event.code = "Backspace" /\ component.input = << >>) =>
                   component'.input = << >>
             /\ event.code \notin { "Char", "Backspace" } => component' = component
             /\ pc' = "disable_raw" <=> (event.code = "Enter" /\ event.modifiers = "NONE")
        ]_vars
    /\ [][ (IsText /\ pc # "update") => component'.input = component.input ]_vars
    /\ []((IsText /\ ~interrupted /\ pc \in { "print", "exit", "exited" })
             => (to_print = component.input /\ err_code = 0))
    /\ []((IsText /\ ~interrupted /\ pc = "exited")
             => (Written = component.input /\ exit_code = 0))

\* C12: a Text prompt completed with a two-character buffer, written out
C12_Witness ==
    /\ IsText
    /\ pc = "exited"
    /\ ~interrupted
    /\ component.input = << "c", "^" >>
    /\ Written = << "c", "^" >>
    /\ exit_code = 0

\* C13: the cursor of Choose is always the index of an option; Down adds 1
\* to it unless it is the last index, Up subtracts 1 unless it is 0, and at
\* those bounds, as for every other event, the cursor stays where it is.
C13_Cursor ==
    /\ [](IsChoose => component.cursor_loc \in 0..(Len(component.choices) - 1))
    /\ [][ ChooseStep =>
             LET cur == component.cursor_loc
                 last == Len(component.choices) - 1
             IN  /\ event.code = "Down" =>
                       component'.cursor_loc = IF cur = last THEN cur ELSE cur + 1
                 /\ event.code = "Up" =>
                       component'.cursor_loc = IF cur = 0 THEN cur ELSE cur - 1
                 /\ event.code \notin { "Down", "Up" } => component'.cursor_loc = cur
        ]_vars
    /\ [][ (IsChoose /\ pc # "update") => component'.cursor_loc = component.cursor_loc ]_vars

\* C13: the cursor on the last of three options, no redraw after the last
\* dispatch
C13_Witness ==
    /\ IsChoose
    /\ Len(component.choices) = 3
    /\ component.cursor_loc = 2
    /\ screen.kind = "Choose" /\ screen.cursor = 2
    /\ pc = "tick"
    /\ ~drew

\* the events the variant has an arm for
Recognised(kind, ev) ==
    CASE kind = "Text" ->
            ev.code \in { "Char", "Backspace" }
                \/ (ev.code = "Enter" /\ ev.modifiers = "NONE")
      [] kind = "Confirm" ->
            ev.code \in { "Left", "Right" }
                \/ (ev.code = "Enter" /\ ev.modifiers = "NONE")
      [] kind = "Choose" ->
            ev.code \in { "Up", "Down", "Enter" } \/ (ev.code = "Char" /\ ev.ch = " ")
      [] OTHER -> FALSE

\* C14: update on an event the variant has no arm for returns Continue and
\* changes nothing of the prompt, draws nothing and prints nothing; for
\* Spinner and Typer that is every event, so no key changes the frame index,
\* the pending graphemes, the done flag or a timestamp.
C14_UnrecognisedIgnored ==
    /\ [](component.kind # "None" =>
             \A ev \in Events : \A io \in { "ok", "draw", "overflow" } :
                ~Recognised(component.kind, ev) =>
                    Component_update(component, ev, io)
                        = [ c |-> component, r |-> "false", drew |-> FALSE ])
    /\ [][ (pc = "update" /\ pc' # "update" /\ ~Recognised(component.kind, event))
              => (/\ pc' = "tick"
                  /\ component' = component
                  /\ screen' = screen
                  /\ typed' = typed
                  /\ child' = child
                  /\ ~drew') ]_vars

\* C14: a Spinner past its first frame, its next frame due, back at the top
\* of the loop after a key was dispatched to it
C14_Witness ==
    /\ IsSpinner
    /\ pc = "tick"
    /\ event = Key("Down", "", "NONE")
    /\ component.progress = 1
    /\ component.elapsed > component.speed
    /\ child.status = "running"

\* C15 as stated: a completed Spinner has the empty payload and the status of
\* its child: the exit code when the child exited with one, a non-zero status
\* when it exited without one or had to be killed; the status leaves through
\* the normal shutdown path: terminal restored, the empty payload printed,
\* the process exits with that status.
C15_SpinnerStatus ==
    /\ (IsSpinner /\ ~interrupted /\ pc \in { "print", "exit", "exited" }) =>
          /\ to_print = << >>
          /\ (child.observed /\ child.exit.has_code) => err_code = child.exit.code
          /\ (child.observed /\ ~child.exit.has_code) => err_code # 0
          /\ child.killed => err_code # 0
    /\ (IsSpinner /\ ~interrupted /\ pc = "exited") =>
          /\ exit_code = err_code
          /\ stdout = << << >> >>
          /\ ~terminal.raw /\ ~terminal.alt /\ ~terminal.hidden

\* C16: a run that completed and reached exit() wrote the payload of the
\* prompt to standard output, that and nothing else, in one write, and exits
\* with the status of the prompt; an interrupted run that reached exit()
\* wrote nothing and exits with the interrupted status, which is not 0;
\* result() is called once at most.
C16_ProcessBoundary ==
    /\ []((pc = "exited" /\ ~interrupted) =>
             LET res == Component_result(component, child, "ok")
             IN  /\ result_called
                 /\ stdout = << res.payload >>
                 /\ exit_code = res.status)
    /\ []((pc = "exited" /\ interrupted) =>
             (Written = << >> /\ exit_code = InterruptedStatus /\ exit_code # 0
                /\ ~result_called))
    /\ [](pc \notin { "exit", "exited" } => stdout = << >>)
    /\ [][ result_called' # result_called
              => (~result_called /\ pc = "result" /\ pc' # "result") ]_vars
    /\ [][ (pc = "result" /\ pc' # "result") => ~result_called ]_vars

\* C16: a Choose prompt completed with two options chosen, its three-character
\* payload written out
C16_Witness ==
    /\ IsChoose
    /\ pc = "exited"
    /\ ~interrupted
    /\ Len(to_print) = 3
    /\ stdout = << to_print >>
    /\ exit_code = 0

\* the command line is choose and stdin has no line
NoChoices == opts.subcommand = "Choose" /\ opts.stdin = << >>

\* C17: Choose over no options panics inside from_opts: no component is
\* built, the terminal is never put in raw mode or on the alternate screen,
\* nothing is drawn, the loop is not entered, and the process fails; so every
\* Choose prompt that is ticked or sent an event has an option.
C17_NoChoicesFatal ==
    /\ [](NoChoices =>
             /\ pc \in { "from_opts", "panicked" }
             /\ component = NoComponent
             /\ ~terminal.raw /\ ~terminal.alt /\ ~terminal.hidden
             /\ screen = NoFrame /\ ~drew
             /\ stdout = << >>)
    /\ []((NoChoices /\ pc = "panicked") => exit_code = PanicExitCode)
    /\ [][ (NoChoices /\ pc = "from_opts" /\ pc' # "from_opts") => pc' = "panicked" ]_vars
    /\ [](IsChoose => Len(component.choices) >= 1)

\* C17: the run over no options, ended by the panic
C17_Witness ==
    /\ NoChoices
    /\ pc = "panicked"
    /\ exit_code = PanicExitCode

\* main() ran the statement at `at`
Ran(at) == pc = at /\ pc' # at

\* main() ran the statement at `at` and it did not fail
RanOk(at) == Ran(at) /\ pc' \notin { "returned_err", "panicked" }

\* The order of the driving loop: the first draw comes after construction and
\* before the loop; an iteration starts with tick, which ends the loop when it
\* returns Ok(true); then comes the wait, which starts the next iteration
\* when no event came and otherwise is followed by the read of one event,
\* the test for the interrupt and the dispatch of that event; after the
\* dispatch the next iteration starts, with its tick.
LoopOrder ==
    /\ [][ RanOk("draw") => (drew' /\ pc' = "tick" /\ component' = component) ]_vars
    /\ [][ (pc' = "tick" /\ pc # "tick") => pc \in { "draw", "poll", "update" } ]_vars
    /\ [][ RanOk("tick") => pc' \in { "poll", "disable_raw" } ]_vars
    /\ [][ (pc' = "poll" /\ pc # "poll") => pc = "tick" ]_vars
    /\ [][ RanOk("poll") =>
              (pc' = (IF events = << >> THEN "tick" ELSE "read") /\ events' = events) ]_vars
    /\ [][ (pc' = "read" /\ pc # "read") => pc = "poll" ]_vars
    /\ [][ RanOk("read") =>
              /\ events # << >>
              /\ event' = Head(events) /\ events' = Tail(events)
              /\ pc' = (IF IsInterrupt(event') THEN "disable_raw" ELSE "update")
              /\ component' = component ]_vars
    /\ [][ (pc' = "update" /\ pc # "update") => pc = "read" ]_vars
    /\ [][ RanOk("update") => pc' \in { "tick", "disable_raw" } ]_vars

WaitsForKeys == component.kind \in { "Text", "Confirm", "Choose" }

\* C19: tick of Text, Confirm and Choose returns Continue and changes
\* nothing, whatever time has passed; the loop around such a prompt is left
\* only by the dispatch of an Enter that completes it, by the interrupt, or
\* by a fatal failure, so an unanswered prompt stays in the loop.
C19_NoLifetimeTimeout ==
    /\ [](WaitsForKeys =>
             \A io \in { "ok", "try_wait", "print", "draw", "overflow" } :
                Component_tick(component, child, typed, io)
                    = [ c |-> component, r |-> "false", child |-> child,
                        typed |-> typed, drew |-> FALSE ])
    /\ [][ (WaitsForKeys /\ Ran("tick")) =>
              (pc' = "poll" /\ component' = component /\ screen' = screen /\ ~drew') ]_vars
    /\ [][ (WaitsForKeys /\ pc \in LoopPcs /\ pc' \notin LoopPcs
                /\ pc' \notin { "returned_err", "panicked" })
              => \/ pc = "read" /\ IsInterrupt(event') /\ interrupted'
                 \/ pc = "update" /\ event.code = "Enter" ]_vars
    /\ [](WaitsForKeys => ~HasTimer(component))

\* C19: a Confirm prompt at the top of the loop again, after an iteration in
\* which the wait for an event timed out
C19_Witness ==
    /\ component.kind = "Confirm"
    /\ pc = "tick"
    /\ event = NoEvent
    /\ events = << >>
    /\ ~drew

\* C20: a tick of the Spinner looks at the child first; when the child has
\* exited, or the look failed, the frame index and the timestamp stay; when
\* it runs and more than `speed` has elapsed since the timestamp the index
\* becomes (index + 1) mod (number of frames) and the timestamp is reset;
\* when it runs and no more than `speed` has elapsed both stay.  Nothing but
\* a tick changes the index or resets the timestamp, and the index is always
\* within the frames, so draw never indexes outside them.
C20_SpinnerTick ==
    /\ [](IsSpinner => component.progress \in 0..(Len(component.chars) - 1))
    /\ [](IsSpinner => \A io \in { "ok", "draw", "overflow" } :
                          Component_draw(component, io) # "panic")
    /\ [][ (IsSpinner /\ Ran("tick") /\ child.status = "exited") =>
              (component' = component /\ pc' \in { "disable_raw", "returned_err" }) ]_vars
    /\ [][ (IsSpinner /\ Ran("tick") /\ child.status = "running") =>
              \/ pc' = "returned_err" /\ ~drew' /\ component' = component
              \/ /\ component.elapsed > component.speed
                 /\ component' =
                       [ component EXCEPT
                           !.progress = (component.progress + 1) % Len(component.chars),
                           !.elapsed = 0 ]
                 /\ drew'
              \/ /\ component.elapsed <= component.speed
                 /\ component' = component
                 /\ pc' = "poll" ]_vars
    /\ [][ (IsSpinner /\ component'.progress # component.progress) => pc = "tick" ]_vars
    /\ [][ (IsSpinner /\ component'.elapsed < component.elapsed) => pc = "tick" ]_vars

\* C20: a Spinner of three frames back on its first frame, drawn by the tick
\* that wrapped the index around
C20_Witness ==
    /\ IsSpinner
    /\ Len(component.chars) = 3
    /\ component.progress = 0
    /\ component.elapsed = 0
    /\ pc = "poll"
    /\ drew
    /\ screen = [ kind |-> "Spinner", c |-> component.chars[1] ]

\* main() ended on an I/O failure
Failed == pc \in { "returned_err", "panicked" }

\* C21: a failure of try_wait, of a write to the screen, of poll or of read
\* inside the loop ends main() there and then: the next state is the end of
\* the process, after which nothing is ticked, drawn or dispatched; nothing
\* was or is written to standard output, and the exit status is that of a
\* failed main() or of a panic, never 0 and never taken from the prompt.
C21_IoFailureFatal ==
    /\ [][ (pc \in LoopPcs /\ pc' \notin LoopPcs /\ pc' # "disable_raw") =>
              (Failed' /\ stdout' = << >> /\ ~result_called'
                 /\ exit_code' \in { ErrExitCode, PanicExitCode }) ]_vars
    /\ [](Failed => (stdout = << >> /\ exit_code \in { ErrExitCode, PanicExitCode }
                        /\ exit_code # 0))
    /\ [][ Failed => UNCHANGED << pc, component, screen, drew, typed, child, event,
                                   events, stdout, exit_code, terminal >> ]_vars
    /\ [][ (Ran("tick") /\ pc' = "returned_err") =>
              \/ IsSpinner /\ ~drew' /\ component' = component
              \/ IsSpinner /\ drew' /\ screen' = TornFrame
              \/ IsTyper /\ typed' = typed ]_vars
    /\ [][ (Ran("update") /\ Failed') => (drew' /\ screen' = TornFrame) ]_vars
    /\ [][ (Ran("read") /\ Failed') =>
              (pc' = "returned_err" /\ events' = events /\ ~interrupted') ]_vars
    /\ [][ (Ran("poll") /\ Failed') => pc' = "panicked" ]_vars

\* C21: a Typer whose second print failed: one grapheme on the screen, the
\* next one taken and lost, main() returned Err
C21_Witness ==
    /\ IsTyper
    /\ pc = "returned_err"
    /\ Len(typed) = 1
    /\ Len(typed) + Len(component.iter) < Len(Graphemes(opts.text))
    /\ terminal.raw
    /\ exit_code = ErrExitCode

\* the number of line ends in a string
LineEnds(s) == Len(SelectSeq(s, LAMBDA ch : ch = "\n"))

\* C22: every key of the selection cache is the index of an option and no
\* key is in it twice; the payload of a completed Choose is the join of one
\* option string per key, that of the key's own index, none dropped by the
\* filter_map, so it has as many lines as the cache has keys; in exact mode
\* that number is `selections`.
C22_PayloadWellFormed ==
    /\ IsChoose =>
          /\ \A k \in Range(component.chosen) : k \in 0..(Len(component.choices) - 1)
          /\ Cardinality(Range(component.chosen)) = LruLen(component.chosen)
          /\ Len(FilterMapGet(LruIter(component.chosen), component.choices))
                = LruLen(component.chosen)
    /\ (IsChoose /\ ~interrupted /\ pc \in { "print", "exit", "exited" }) =>
          LET keys == LruIter(component.chosen)
              lines == [ i \in 1..Len(keys) |-> component.choices[keys[i] + 1] ]
          IN  /\ to_print = Join(lines, << "\n" >>)
              /\ keys # << >> => LineEnds(to_print) + 1 = Len(keys)
              /\ keys = << >> => to_print = << >>
              /\ ~component.inexact => Len(keys) = component.selections

\* C22: an exact Choose of capacity 2 over three options, completed after an
\* eviction, its two lines written out
C22_Witness ==
    /\ IsChoose
    /\ ~component.inexact
    /\ component.selections = 2
    /\ Len(component.choices) = 3
    /\ evicted
    /\ pc = "exited"
    /\ ~interrupted
    /\ LineEnds(Written) = 1

\* exact mode with a capacity no option list of this size can fill
Unfillable(c) == ~c.inexact /\ c.selections > Len(c.choices)

\* A key that brings the Choose prompt nearer to completion: Enter when it
\* would complete, Space on an unselected option, and otherwise a step of the
\* cursor towards an unselected option.
UsefulKey(c) ==
    IF ChooseMayComplete(c) THEN Key("Enter", "", "NONE")
    ELSE IF ~LruContains(c.chosen, c.cursor_loc) THEN Key("Char", " ", "NONE")
    ELSE IF \E i \in (c.cursor_loc + 1)..(Len(c.choices) - 1) : ~LruContains(c.chosen, i)
        THEN Key("Down", "", "NONE")
    ELSE Key("Up", "", "NONE")

RECURSIVE CompletesWithin(_, _)
\* update returns Ok(true) within n + 1 keys, each the useful key of its state
CompletesWithin(c, n) ==
    LET u == ChooseUpdate(c, UsefulKey(c), "ok")
    IN  u.r = "true" \/ (n > 0 /\ u.r = "false" /\ CompletesWithin(u.c, n - 1))

\* keys enough to select every option one after the other and press Enter
EnoughKeys == MaxChoices * (MaxChoices + 1) + 1

\* C23: an exact Choose whose capacity exceeds the number of options never
\* has a full cache, is completed by no event, and its run leaves the loop
\* by the interrupt alone (or a fatal failure); when it is inexact or the
\* capacity is within the number of options, every state of the prompt has a
\* finite sequence of keys after which update returns Completed.
C23_Completability ==
    /\ []((IsChoose /\ Unfillable(component)) =>
             /\ LruLen(component.chosen) < component.selections
             /\ \A ev \in Events : \A io \in { "ok", "draw", "overflow" } :
                   Component_update(component, ev, io).r # "true"
             /\ pc \notin LoopPcs \cup { "from_opts", "enter_alt", "enable_raw", "draw" }
                   => (interrupted \/ Failed))
    /\ [][ (IsChoose /\ Unfillable(component) /\ pc \in LoopPcs /\ pc' \notin LoopPcs)
              => (Failed' \/ (pc = "read" /\ interrupted')) ]_vars
    /\ []((IsChoose /\ ~Unfillable(component) /\ pc \in LoopPcs)
             => CompletesWithin(component, EnoughKeys))

\* C23: an exact Choose of capacity 2 over one option, that option selected,
\* back at the top of the loop after Enter was dispatched
C23_Witness ==
    /\ IsChoose
    /\ Unfillable(component)
    /\ Len(component.choices) = 1
    /\ LruLen(component.chosen) = 1
    /\ event = Key("Enter", "", "NONE")
    /\ pc = "tick"

\* the interrupt is waiting, unread, at the head of the event source
InterruptPending == events # << >> /\ Head(events) = CtrlC

\* the tick of this state would return Completed: the Spinner's child has
\* exited, or the Typer is done printing and its wait has elapsed
TickCompletes ==
    \/ IsSpinner /\ child.status = "exited"
    \/ IsTyper /\ component.done_printing /\ component.elapsed > component.wait

\* C24: tick runs before the event source is looked at: when the tick of an
\* iteration completes the prompt, the loop ends as a completion, a pending
\* interrupt stays unread and the run reports the status of the prompt; the
\* interrupt is taken only by the read of an iteration whose tick returned
\* Continue.
C24_CompletionBeforeInterrupt ==
    /\ [][ (Ran("tick") /\ TickCompletes /\ InterruptPending /\ ~Failed') =>
              (pc' = "disable_raw" /\ ~interrupted' /\ events' = events) ]_vars
    /\ []((~interrupted /\ InterruptPending /\ pc = "exited") =>
             /\ result_called
             /\ exit_code = Component_result(component, child, "ok").status
             /\ IsSpinner => exit_code = StatusCode(child.exit))
    /\ [][ (interrupted' /\ ~interrupted) => (pc = "read" /\ InterruptPending) ]_vars
    /\ [][ (pc' = "read" /\ pc # "read") => (pc = "poll" /\ events # << >>) ]_vars
    /\ [][ (pc' = "poll" /\ pc # "poll") =>
              (pc = "tick" /\ ~TickCompletes) ]_vars

\* C24: a Spinner whose child exited with code 3 while the interrupt was
\* pending: the run completed and exits with 3, the interrupt still unread
C24_Witness ==
    /\ IsSpinner
    /\ pc = "exited"
    /\ ~interrupted
    /\ InterruptPending
    /\ exit_code = 3

\* the statements between the loop and the call of result()
AfterLoop == pc \in { "disable_raw", "leave_alt", "result" }

\* C25: main() comes to call result() on a Spinner only after a tick saw the
\* child exited, so result() finds the exit status, never sends the kill and
\* never reports the status of its kill branch for a child still running.
C25_SpinnerKillUnreached ==
    /\ (IsSpinner /\ AfterLoop /\ ~interrupted) =>
          /\ child.status = "exited" /\ child.observed
          /\ \A io \in { "ok", "try_wait" } :
                LET res == Component_result(component, child, io)
                IN  /\ ~res.child.killed
                    /\ res.r = "ok" => res.status = StatusCode(child.exit)
    /\ (IsSpinner /\ result_called) =>
          (child.status = "exited" /\ child.observed /\ ~child.killed)
    /\ IsSpinner => ~child.killed

\* C25: result() was called on a Spinner whose child ended without an exit
\* code: status 1, and no kill
C25_Witness ==
    /\ IsSpinner
    /\ result_called
    /\ pc = "print"
    /\ ~child.exit.has_code
    /\ err_code = 1
    /\ ~child.killed

\* C26: draw leaves the prompt as it found it, for every variant and however
\* often it is called; the Choose arm asks the cache for membership without
\* touching its keys or their recency order, so a prompt that was drawn once
\* more answers every event as it would have, evicts the same key, and has
\* the same payload.
C26_DrawPreservesState ==
    /\ [](component.kind # "None" =>
             /\ Component_afterDraw(component) = component
             /\ Component_afterDraw(Component_afterDraw(component)) = component
             /\ \A ev \in Events :
                   Component_update(Component_afterDraw(component), ev, "ok")
                      = Component_update(component, ev, "ok")
             /\ Component_result(Component_afterDraw(component), child, "ok")
                   = Component_result(component, child, "ok"))
    /\ [][ Ran("draw") => component' = component ]_vars
    /\ [][ Ran("tick") =>
              \E io \in { "ok", "try_wait", "print", "draw", "overflow" } :
                 component' = Component_tick(component, child, typed, io).c ]_vars
    /\ [][ Ran("update") =>
              \E io \in { "ok", "draw", "overflow" } :
                 component' = Component_update(component, event, io).c ]_vars

\* C26: a Choose prompt, just redrawn, whose most recently selected option
\* comes before the other selected one in the list
C26_Witness ==
    /\ IsChoose
    /\ drew
    /\ pc = "tick"
    /\ LruIter(component.chosen) = << 0, 1 >>
    /\ screen = Component_frame(component)

\* the configuration of a Choose prompt: options, capacity and mode
ChooseConfig(c) == << c.choices, c.selections, c.inexact >>

\* C27: Up and Down leave the selection cache as it is, keys and order;
\* Space and Enter leave the cursor where it is; no event, and nothing else,
\* changes the options, the capacity or the mode.
C27_ChooseFrame ==
    /\ [](IsChoose =>
             \A ev \in Events : \A io \in { "ok", "draw", "overflow" } :
                LET u == Component_update(component, ev, io).c
                IN  /\ ev.code \in { "Up", "Down" } => u.chosen = component.chosen
                    /\ (ev.code = "Enter" \/ (ev.code = "Char" /\ ev.ch = " "))
                          => u.cursor_loc = component.cursor_loc
                    /\ u.kind = "Choose"
                    /\ ChooseConfig(u) = ChooseConfig(component))
    /\ [][ (ChooseStep /\ event.code \in { "Up", "Down" })
              => (component'.chosen = component.chosen /\ insert_log' = insert_log) ]_vars
    /\ [][ (ChooseStep /\ (event.code = "Enter" \/ (event.code = "Char" /\ event.ch = " ")))
              => component'.cursor_loc = component.cursor_loc ]_vars
    /\ [][ IsChoose => (component'.kind = "Choose"
                          /\ ChooseConfig(component') = ChooseConfig(component)) ]_vars
    /\ [](IsChoose => (component.choices = opts.stdin
                          /\ component.selections = opts.selections
                          /\ component.inexact = opts.inexact))

\* C27: Up was dispatched to a Choose prompt with two options selected and
\* moved the cursor to the first option
C27_Witness ==
    /\ IsChoose
    /\ pc = "tick"
    /\ event = Key("Up", "", "NONE")
    /\ drew
    /\ component.cursor_loc = 0
    /\ LruLen(component.chosen) = 2

\* the ComponentTrait implementor is the Typer of typer.rs
IsTTyper == tcomponent.kind = "Typer"

C29_WidthZero ==
    (IsText /\ component.width = 0) =>
        /\ \A io \in { "ok", "overflow" } : Component_draw(component, io) = "ok"
        /\ pc \in LoopPcs =>
              screen = [ kind |-> "Text", is_bg |-> (component.input = << >>),
                         to_print |-> << >> ]

\* the Component of main.rs and the implementor of component.rs are in
\* corresponding states: the same fields, the Typer's iterator holding what
\* the implementor's reversed Vec holds
Corresponds(c, t) ==
    /\ c.kind = t.kind
    /\ c.kind = "Typer" =>
          /\ c.iter = Reverse(t.graphemes)
          /\ << c.speed, c.wait, c.elapsed, c.done_printing >>
                = << t.speed, t.wait, t.elapsed, t.done_printing >>
    /\ c.kind # "Typer" => c = t

\* C30 as stated: side by side, the Component of main.rs and the
\* ComponentTrait implementor stay in corresponding states, tick and the
\* event handler of the two return the same Completed / Continue / failure
\* for every I/O outcome and every event, the two ticks print the same, and
\* at completion result() gives the same payload and statuses that are both
\* zero or both non-zero.
C30_Agreement ==
    /\ Corresponds(component, tcomponent)
    /\ PLive =>
          /\ \A io \in { "ok", "try_wait", "print" } :
                LET m == Component_tick(component, child, typed, io)
                    t == Trait_tick(tcomponent, child, typed, io)
                IN  /\ m.r = t.r
                    /\ m.typed = t.typed
                    /\ m.child = t.child
                    /\ Corresponds(m.c, t.c)
          /\ \A ev \in { e \in Events : ~IsInterrupt(e) } :
                LET m == Component_update(component, ev, "ok")
                    h == Trait_handle_event(tcomponent, ev)
                IN  m.r = h.r /\ Corresponds(m.c, h.c)
    /\ tresult.called =>
          /\ to_print = tresult.payload
          /\ (err_code = 0) <=> (ResultStatus(tresult) = 0)

=============================================================================
